---- MODULE Spec2Model ----
(***************************************************************************)
(* Model of the flaky test detector (flaky_test_detector.py): the run      *)
(* executor run_test_multiple_times, the outcome extractor                 *)
(* _parse_test_output, the reliability aggregator analyze_flakiness with   *)
(* _calculate_variance, the static scanner detect_flaky_patterns, the      *)
(* report composer generate_flaky_test_report and main, which drives them; *)
(* and of testbot.py: its detect_flaky_patterns, analyze_security_risks    *)
(* with the three content checks, and the status line of scan_codebase.    *)
(*                                                                         *)
(* Texts (stdout, stderr, test names) are sequences of one-character       *)
(* strings.  Durations are whole seconds and the float arithmetic of the   *)
(* aggregator is carried out over exact rationals [num, den] in lowest     *)
(* terms; IEEE rounding is not modelled.  A dict is a function; the        *)
(* insertion order of its keys is not modelled.                            *)
(***************************************************************************)
EXTENDS Integers, Sequences, FiniteSets, TLC

VARIABLES pc, detector, run, results, stdout, stderr, test_names, analysis, printed,
          var_values, var_result, calls,
          content, file_path, scanned, flaky_patterns, flaky_issues,
          fs, test_files, file_index, pattern_analysis, all_flaky_issues, scan_log,
          element_name, has_tests, doc_score, check_no, security_issues, risk_level,
          result, earlier

\* the state of the static scanners: the text under scan and what the two
\* detect_flaky_patterns functions returned for it
scan_vars == <<content, file_path, scanned, flaky_patterns, flaky_issues>>

\* the state of the two loops that scan a list of files
file_vars == <<fs, test_files, file_index, pattern_analysis, all_flaky_issues, scan_log>>

\* the state of one analyze_security_risks call: its arguments, the number
\* of the check that comes next, and its two locals
sec_vars == <<element_name, has_tests, doc_score, check_no, security_issues, risk_level>>

\* with result, the CompletedProcess of the latest completed run (its run
\* index and wall time kept with it), and earlier, what a caller of
\* analyze_flakiness keeps of its previous call
static_vars == <<scan_vars, file_vars, sec_vars, result, earlier>>

vars == <<pc, detector, run, results, stdout, stderr, test_names, analysis, printed,
          var_values, var_result, calls, static_vars>>

\* analyze_security_risks has not been called
SecurityIdle ==
    /\ element_name = <<>>
    /\ has_tests = FALSE
    /\ doc_score = 0
    /\ check_no = 0
    /\ security_issues = <<>>
    /\ risk_level = "LOW"

\* no static scan has taken place
StaticIdle ==
    /\ content = <<>>
    /\ file_path = <<>>
    /\ scanned = {}
    /\ flaky_patterns = <<>>
    /\ flaky_issues = <<>>
    /\ fs = <<>>
    /\ test_files = <<>>
    /\ file_index = [main |-> 1, testbot |-> 1]
    /\ pattern_analysis = <<>>
    /\ all_flaky_issues = <<>>
    /\ scan_log = <<>>
    /\ SecurityIdle
    /\ result = [run |-> 0, returncode |-> 0, duration |-> 0]
    /\ earlier = [results |-> <<>>, analysis |-> <<>>]

(* ---------------------------- bounds ----------------------------------- *)

\* largest value of --runs explored
MaxRuns == 3

\* longest stdout text (in characters) explored for the extractor alone
MaxChars == 10

\* largest number of run records in a session handed to the aggregator alone
MaxRecords == 5

\* largest number of calls of run_test_multiple_times on one detector
MaxCalls == 3

(* ---------------------------- texts ------------------------------------ *)

\* the ASCII characters that Python's \w matches
WordChars == {"a", "b", "c", "d", "e", "f", "g", "h", "i", "j", "k", "l", "m",
              "n", "o", "p", "q", "r", "s", "t", "u", "v", "w", "x", "y", "z",
              "A", "B", "C", "D", "E", "F", "G", "H", "I", "J", "K", "L", "M",
              "N", "O", "P", "Q", "R", "S", "T", "U", "V", "W", "X", "Y", "Z",
              "0", "1", "2", "3", "4", "5", "6", "7", "8", "9", "_"}

\* the fallback identifier "all_tests"
all_tests == <<"a", "l", "l", "_", "t", "e", "s", "t", "s">>

\* the separator "::" used in the patterns and in the f-strings
ColonColon == <<":", ":">>

\* ".py::"
DotPyColonColon == <<".", "p", "y", ":", ":">>

\* a pattern is a sequence of items: a literal text, W for \w+ (a group in
\* the pytest patterns), or Sp for \s+
W == "W"
Sp == "Sp"

\* further items of the patterns of testbot.py: Sp0 for \s*, Quote for
\* ["\'], NotQuote3 for [^"\']{3,} and NotQuotePlus for [^"\']*\+[^"\']*
Sp0 == "Sp0"
Quote == "Quote"
NotQuote3 == "NotQuote3"
NotQuotePlus == "NotQuotePlus"

QuoteChars == {"\"", "'"}

\* the characters of the modelled texts that Python's \s matches
WhiteChars == {" ", "\n", "\t"}

pytest_patterns ==
    << <<ColonColon, W, ColonColon, W>>,
       <<W, DotPyColonColon, W>>,
       <<W, DotPyColonColon, W, ColonColon, W>> >>

\* index just after the longest run of word characters of s starting at i
RECURSIVE WordEnd(_, _)
WordEnd(s, i) ==
    IF i <= Len(s) /\ s[i] \in WordChars THEN WordEnd(s, i + 1) ELSE i

\* index just after the longest run of whitespace of s starting at i
RECURSIVE WhiteEnd(_, _)
WhiteEnd(s, i) ==
    IF i <= Len(s) /\ s[i] \in WhiteChars THEN WhiteEnd(s, i + 1) ELSE i

\* index just after the longest run of s starting at i without a quote
RECURSIVE NotQuoteEnd(_, _)
NotQuoteEnd(s, i) ==
    IF i <= Len(s) /\ s[i] \notin QuoteChars THEN NotQuoteEnd(s, i + 1) ELSE i

\* the literal text lit occurs in s at index i
LitAt(s, i, lit) ==
    /\ i + Len(lit) - 1 <= Len(s)
    /\ \A k \in 1..Len(lit) : s[i + k - 1] = lit[k]

NoMatch == [ok |-> FALSE, next |-> 0, groups |-> <<>>]

\* re.match of the items k.. of pat at index i of s, groups collected so far.
\* Every \w+ is followed by a non-word literal or ends the pattern, every
\* \s+ or \s* by a character that is not whitespace, and every run of
\* characters other than quotes by a quote, so a greedy item is exactly the
\* longest run.
RECURSIVE MatchFrom(_, _, _, _, _)
MatchFrom(pat, k, s, i, groups) ==
    IF k > Len(pat) THEN [ok |-> TRUE, next |-> i, groups |-> groups]
    ELSE IF pat[k] = W
         THEN LET e == WordEnd(s, i)
              IN IF e > i
                 THEN MatchFrom(pat, k + 1, s, e, Append(groups, SubSeq(s, i, e - 1)))
                 ELSE NoMatch
         ELSE IF pat[k] = Sp
         THEN LET e == WhiteEnd(s, i)
              IN IF e > i THEN MatchFrom(pat, k + 1, s, e, groups) ELSE NoMatch
         ELSE IF pat[k] = Sp0
         THEN MatchFrom(pat, k + 1, s, WhiteEnd(s, i), groups)
         ELSE IF pat[k] = Quote
         THEN IF i <= Len(s) /\ s[i] \in QuoteChars
              THEN MatchFrom(pat, k + 1, s, i + 1, groups)
              ELSE NoMatch
         ELSE IF pat[k] = NotQuote3
         THEN LET e == NotQuoteEnd(s, i)
              IN IF e >= i + 3 THEN MatchFrom(pat, k + 1, s, e, groups) ELSE NoMatch
         ELSE IF pat[k] = NotQuotePlus
         THEN LET e == NotQuoteEnd(s, i)
              IN IF \E p \in i..(e - 1) : s[p] = "+"
                 THEN MatchFrom(pat, k + 1, s, e, groups)
                 ELSE NoMatch
         ELSE IF LitAt(s, i, pat[k])
              THEN MatchFrom(pat, k + 1, s, i + Len(pat[k]), groups)
              ELSE NoMatch

\* re.findall(pattern, s): the group tuples of the non-overlapping matches,
\* scanning left to right from index i
RECURSIVE findall(_, _, _)
findall(pat, s, i) ==
    IF i > Len(s) THEN <<>>
    ELSE LET m == MatchFrom(pat, 1, s, i, <<>>)
         IN IF m.ok THEN <<m.groups>> \o findall(pat, s, m.next)
                    ELSE findall(pat, s, i + 1)

\* f"{match[0]}::{match[1]}" and f"{match[0]}::{match[1]}::{match[2]}"
format_match(match) ==
    IF Len(match) = 2 THEN match[1] \o ColonColon \o match[2]
    ELSE match[1] \o ColonColon \o match[2] \o ColonColon \o match[3]

RECURSIVE format_matches(_)
format_matches(matches) ==
    IF matches = <<>> THEN <<>>
    ELSE <<format_match(Head(matches))>> \o format_matches(Tail(matches))

\* the names appended by the patterns k.. in order
RECURSIVE names_from(_, _)
names_from(k, out) ==
    IF k > Len(pytest_patterns) THEN <<>>
    ELSE format_matches(findall(pytest_patterns[k], out, 1)) \o names_from(k + 1, out)

\* _parse_test_output without the "if not test_names" fallback
_parse_test_output_no_fallback(out, err) == names_from(1, out)

\* FlakyTestDetector._parse_test_output: the list of names, in pattern order
_parse_test_output(out, err) ==
    LET names == names_from(1, out)
    IN IF names = <<>> THEN <<all_tests>> ELSE names

(* ---------------------------- arithmetic ------------------------------- *)

\* the per-run timeout passed to subprocess.run, in seconds
timeout == 300

\* the duration recorded for a run that timed out
timeout_duration == 300

RECURSIVE GCD(_, _)
GCD(a, b) == IF b = 0 THEN a ELSE GCD(b, a % b)

Abs(a) == IF a < 0 THEN 0 - a ELSE a

\* the rational n/d (d > 0) in lowest terms; 0 is [num |-> 0, den |-> 1]
Rat(n, d) ==
    LET g == GCD(Abs(n), d)
    IN [num |-> n \div g, den |-> d \div g]

RAdd(x, y) == Rat(x.num * y.den + y.num * x.den, x.den * y.den)
RSub(x, y) == Rat(x.num * y.den - y.num * x.den, x.den * y.den)
RMul(x, y) == Rat(x.num * y.num, x.den * y.den)
RDivInt(x, n) == Rat(x.num, x.den * n)
RGt(x, y) == x.num * y.den > y.num * x.den
RLt(x, y) == x.num * y.den < y.num * x.den

Zero == Rat(0, 1)
One == Rat(1, 1)
Half == Rat(1, 2)

\* sum() of a list of integers (True counts 1, False counts 0)
RECURSIVE sum(_)
sum(values) == IF values = <<>> THEN 0 ELSE Head(values) + sum(Tail(values))

\* sum((x - mean) ** 2 for x in values)
RECURSIVE sum_sq_dev(_, _)
sum_sq_dev(values, mean) ==
    IF values = <<>> THEN Zero
    ELSE LET d == RSub(Rat(Head(values), 1), mean)
         IN RAdd(RMul(d, d), sum_sq_dev(Tail(values), mean))

\* _calculate_variance dividing by len(values) - 1 (the sample variance)
_calculate_variance_sample(values) ==
    IF Len(values) < 2 THEN Zero
    ELSE LET mean == Rat(sum(values), Len(values))
         IN RDivInt(sum_sq_dev(values, mean), Len(values) - 1)

\* FlakyTestDetector._calculate_variance
_calculate_variance(values) ==
    IF Len(values) < 2 THEN Zero
    ELSE LET mean == Rat(sum(values), Len(values))
         IN RDivInt(sum_sq_dev(values, mean), Len(values))

(* ---------------------------- aggregator ------------------------------- *)

\* [run['success'] for run in runs] as 0/1, and [run['duration'] for run in runs]
successes_of(runs) == [i \in 1..Len(runs) |-> IF runs[i].success THEN 1 ELSE 0]
durations_of(runs) == [i \in 1..Len(runs) |-> runs[i].duration]

\* base_level with the first test reduced to success_rate < 1.0
base_level_no_lower_test(success_rate) ==
    IF RLt(success_rate, One) THEN <<"FLAKY">>
    ELSE IF success_rate = Zero THEN <<"FAILING">>
    ELSE <<"STABLE">>

\* the if/elif/else on success_rate; a level is the sequence of its parts
base_level(success_rate) ==
    IF RLt(success_rate, One) /\ RGt(success_rate, Zero) THEN <<"FLAKY">>
    ELSE IF success_rate = Zero THEN <<"FAILING">>
    ELSE <<"STABLE">>

\* performance_flaky with >= in place of >
performance_flaky_inclusive(duration_variance, avg_duration) ==
    ~RLt(duration_variance, RMul(avg_duration, Half))

\* duration_variance > avg_duration * 0.5
performance_flaky(duration_variance, avg_duration) ==
    RGt(duration_variance, RMul(avg_duration, Half))

\* flakiness_level, with += "_PERFORMANCE" appending a part
flakiness_level(success_rate, duration_variance, avg_duration) ==
    IF performance_flaky(duration_variance, avg_duration)
    THEN base_level(success_rate) \o <<"_PERFORMANCE">>
    ELSE base_level(success_rate)

\* failed_runs counting every run
failed_runs_all(successes) == Len(successes)

\* len(successes) - sum(successes)
failed_runs(successes) == Len(successes) - sum(successes)

\* the entry of flaky_analysis built for one test from its non-empty runs
verdict(runs) ==
    LET successes == successes_of(runs)
        durations == durations_of(runs)
        success_rate == Rat(sum(successes), Len(successes))
        avg_duration == Rat(sum(durations), Len(durations))
        duration_variance == _calculate_variance(durations)
    IN [flakiness_level |-> flakiness_level(success_rate, duration_variance, avg_duration),
        success_rate |-> success_rate,
        total_runs |-> Len(runs),
        successful_runs |-> sum(successes),
        failed_runs |-> failed_runs(successes),
        avg_duration |-> avg_duration,
        duration_variance |-> duration_variance,
        runs |-> runs]

\* analysed_names skipping every list shorter than two
analysed_names_two(res) == {name \in DOMAIN res : Len(res[name]) >= 2}

\* the names that pass "if not runs: continue"
analysed_names(res) == {name \in DOMAIN res : res[name] # <<>>}

\* FlakyTestDetector.analyze_flakiness
analyze_flakiness(res) == [name \in analysed_names(res) |-> verdict(res[name])]

(* ---------------------------- run executor ----------------------------- *)

\* an empty dict
EmptyDict == [name \in {} |-> <<>>]

\* results[test_name].append(record) on a defaultdict(list)
dict_append(res, name, record) ==
    [n \in DOMAIN res \cup {name} |->
        IF n = name
        THEN (IF n \in DOMAIN res THEN res[n] ELSE <<>>) \o <<record>>
        ELSE res[n]]

\* for test_name in test_names: results[test_name].append(record)
RECURSIVE append_for_names(_, _, _)
append_for_names(res, names, record) ==
    IF names = <<>> THEN res
    ELSE append_for_names(dict_append(res, Head(names), record), Tail(names), record)

\* for test_name in results.keys(): results[test_name].append(record)
append_for_keys(res, record) == [n \in DOMAIN res |-> res[n] \o <<record>>]

\* completed_record with success fixed to True
completed_record_passed(r, returncode, duration, out, err) ==
    [success |-> TRUE, duration |-> duration, run |-> r,
     stdout |-> out, stderr |-> err]

\* the record appended for a run whose subprocess returned
completed_record(r, returncode, duration, out, err) ==
    [success |-> (returncode = 0), duration |-> duration, run |-> r,
     stdout |-> out, stderr |-> err]

\* "Test execution timed out" (kept as one symbol)
TimedOutText == <<"Test execution timed out">>

\* the record appended for a run that raised TimeoutExpired
timeout_record(r) ==
    [success |-> FALSE, duration |-> timeout_duration, run |-> r,
     stdout |-> <<>>, stderr |-> TimedOutText]

(* ---------------------------- inputs ----------------------------------- *)

\* "a.py::t"
IdFunc == <<"a", ".", "p", "y", ":", ":", "t">>

\* "a.py::C::t"
IdMethod == <<"a", ".", "p", "y", ":", ":", "C", ":", ":", "t">>

Passed == <<" ", "P", "A", "S", "S", "E", "D">>
Failed == <<"F", "A", "I", "L", "E", "D", " ">>

\* runner outputs: nothing; one verbose line; a verbose line followed by the
\* summary line naming the same test again; one verbose line of a method
Stdouts ==
    { <<>>,
      IdFunc \o Passed,
      IdFunc \o <<" ">> \o Failed \o IdFunc,
      IdMethod \o Passed }

Stderrs == { <<>> }

\* wall time of a completed run, in seconds
Durations == {1, 3}

\* exit codes of the runner
ReturnCodes == {0, 1}

\* exceptions of subprocess.run other than TimeoutExpired
InvocationErrors == {"FileNotFoundError"}

\* values of --test-dir: a directory that exists and one that does not
TestDirs == {"tests", "missing"}

\* the directories of the file system
ExistingPaths == {"tests"}

(* ---------------------------- main ------------------------------------- *)

\* FlakyTestDetector.__init__ called from main with --runs n, then the start
\* of run_test_multiple_times (results = defaultdict(list), first run next)
Init ==
    /\ pc = "run"
    /\ detector \in {[test_directory |-> d, runs |-> n,
                      flaky_tests |-> <<>>, test_results |-> EmptyDict] :
                         d \in TestDirs, n \in 0..MaxRuns}
    /\ run = 1
    /\ results = EmptyDict
    /\ stdout = <<>>
    /\ stderr = <<>>
    /\ test_names = <<>>
    /\ analysis = EmptyDict
    /\ printed = <<>>
    /\ var_values = <<>>
    /\ var_result = Zero
    /\ calls = 1
    /\ StaticIdle

\* the loop takes the next run index, prints "Run i/n" and calls
\* subprocess.run, which blocks until the runner is done or timeout expires
RunStart ==
    /\ pc = "run"
    /\ run <= detector.runs
    /\ pc' = "subprocess"
    /\ printed' = Append(printed, [msg |-> "run", run |-> run])
    /\ UNCHANGED <<static_vars, calls, var_values, var_result, detector, run, results, stdout, stderr,
                   test_names, analysis>>

\* the rest of an iteration in which subprocess.run returns (result.run = 0
\* while no subprocess of this call has returned)
RunCompleted(returncode, duration, out, err) ==
    /\ pc = "subprocess"
    /\ pc' = "run"
    /\ stdout' = out
    /\ stderr' = err
    /\ test_names' = _parse_test_output(out, err)
    /\ results' = append_for_names(results, test_names',
                                   completed_record(run, returncode, duration, out, err))
    /\ run' = run + 1
    /\ result' = [run |-> run, returncode |-> returncode, duration |-> duration]
    /\ UNCHANGED <<scan_vars, file_vars, sec_vars, earlier, calls, var_values, var_result,
                   detector, analysis, printed>>

\* RunTimeout leaving the loop after the timeout (a break in the handler)
RunTimeout_break ==
    /\ pc = "subprocess"
    /\ pc' = "run"
    /\ results' = append_for_keys(results, timeout_record(run))
    /\ printed' = Append(printed, [msg |-> "timed out", run |-> run])
    /\ run' = detector.runs + 1
    /\ UNCHANGED <<static_vars, calls, var_values, var_result, detector, stdout, stderr, test_names, analysis>>

\* the rest of an iteration in which subprocess.run raises TimeoutExpired
RunTimeout ==
    /\ pc = "subprocess"
    /\ pc' = "run"
    /\ results' = append_for_keys(results, timeout_record(run))
    /\ printed' = Append(printed, [msg |-> "timed out", run |-> run])
    /\ run' = run + 1
    /\ UNCHANGED <<static_vars, calls, var_values, var_result, detector, stdout, stderr, test_names, analysis>>

\* the rest of an iteration in which subprocess.run raises another exception
RunError(e) ==
    /\ pc = "subprocess"
    /\ pc' = "run"
    /\ printed' = Append(printed, [msg |-> "failed", run |-> run, error |-> e])
    /\ run' = run + 1
    /\ UNCHANGED <<static_vars, calls, var_values, var_result, detector, results, stdout, stderr, test_names, analysis>>

\* MainNoResults without the return: main goes on to analyze_flakiness
MainNoResults_continue ==
    /\ pc = "run"
    /\ run > detector.runs
    /\ results = EmptyDict
    /\ analysis' = analyze_flakiness(results)
    /\ pc' = "analyzed"
    /\ printed' = Append(printed, [msg |-> "no test results", run |-> 0])
    /\ UNCHANGED <<static_vars, calls, var_values, var_result, detector, run, results, stdout, stderr, test_names>>

\* the loop is over, run_test_multiple_times returns an empty dict and main
\* reports "No test results found" and returns
MainNoResults ==
    /\ pc = "run"
    /\ run > detector.runs
    /\ results = EmptyDict
    /\ pc' = "no_results"
    /\ printed' = Append(printed, [msg |-> "no test results", run |-> 0])
    /\ UNCHANGED <<static_vars, calls, var_values, var_result, detector, run, results, stdout, stderr, test_names, analysis>>

\* the loop is over, run_test_multiple_times returns a non-empty dict and main
\* calls analyze_flakiness on it
MainAnalyze ==
    /\ pc = "run"
    /\ run > detector.runs
    /\ results # EmptyDict
    /\ analysis' = analyze_flakiness(results)
    /\ pc' = "analyzed"
    /\ UNCHANGED <<static_vars, calls, var_values, var_result, detector, run, results, stdout, stderr, test_names, printed>>

Next ==
    \/ RunStart
    \/ \E returncode \in ReturnCodes, duration \in Durations,
          out \in Stdouts, err \in Stderrs :
            RunCompleted(returncode, duration, out, err)
    \/ RunTimeout
    \/ \E e \in InvocationErrors : RunError(e)
    \/ MainNoResults
    \/ MainAnalyze

Spec == Init /\ [][Next]_vars

\* the runner outputs and wall times of the runs where the loop itself is
\* under study: no test name, or one
CallStdouts == { <<>>, IdFunc \o Passed }
CallDurations == {1}

\* subprocess.run returns, raises TimeoutExpired or raises another exception
SubprocessEnds ==
    \/ \E returncode \in ReturnCodes, duration \in CallDurations,
          out \in CallStdouts, err \in Stderrs :
            RunCompleted(returncode, duration, out, err)
    \/ RunTimeout
    \/ \E e \in InvocationErrors : RunError(e)

\* a detector whose test directory exists
InitLive ==
    /\ Init
    /\ detector.test_directory \in ExistingPaths

\* the loop goes on to its next iteration, and a call of subprocess.run ends
\* (the timeout bounds it)
NextLive ==
    \/ RunStart
    \/ SubprocessEnds
    \/ MainNoResults
    \/ MainAnalyze

SpecLive ==
    /\ InitLive
    /\ [][NextLive]_vars
    /\ WF_vars(RunStart) /\ WF_vars(SubprocessEnds)

(* ---------------------------- repeated calls --------------------------- *)

\* CallAgain keeping the dict of the previous call (results bound to a field
\* of the detector in place of a fresh defaultdict)
CallAgain_shared ==
    /\ pc = "run"
    /\ run > detector.runs
    /\ calls < MaxCalls
    /\ calls' = calls + 1
    /\ run' = 1
    /\ printed' = <<>>
    /\ stdout' = <<>>
    /\ stderr' = <<>>
    /\ test_names' = <<>>
    /\ result' = [run |-> 0, returncode |-> 0, duration |-> 0]
    /\ UNCHANGED <<scan_vars, file_vars, sec_vars, earlier, var_values, var_result, pc,
                   detector, results, analysis>>

\* run_test_multiple_times has returned and is called again on the same
\* detector: results = defaultdict(list), the loop starts over; printed
\* holds the lines of the current call
CallAgain ==
    /\ pc = "run"
    /\ run > detector.runs
    /\ calls < MaxCalls
    /\ calls' = calls + 1
    /\ run' = 1
    /\ results' = EmptyDict
    /\ printed' = <<>>
    /\ stdout' = <<>>
    /\ stderr' = <<>>
    /\ test_names' = <<>>
    /\ result' = [run |-> 0, returncode |-> 0, duration |-> 0]
    /\ UNCHANGED <<scan_vars, file_vars, sec_vars, earlier, var_values, var_result, pc,
                   detector, analysis>>

NextCalls ==
    \/ RunStart
    \/ \E returncode \in ReturnCodes, duration \in CallDurations,
          out \in CallStdouts, err \in Stderrs :
            RunCompleted(returncode, duration, out, err)
    \/ RunTimeout
    \/ \E e \in InvocationErrors : RunError(e)
    \/ CallAgain

SpecCalls == Init /\ [][NextCalls]_vars

(* ---------------------------- the extractor alone ---------------------- *)

\* pieces of runner output: a word, a blank, "::" and ".py"
Pieces == { <<"a">>, <<" ">>, ColonColon, <<".", "p", "y">> }

InitParse ==
    /\ pc = "parse_input"
    /\ detector = [test_directory |-> "tests", runs |-> 0,
                   flaky_tests |-> <<>>, test_results |-> EmptyDict]
    /\ run = 0
    /\ results = EmptyDict
    /\ stdout = <<>>
    /\ stderr \in { <<>>, IdFunc }
    /\ test_names = <<>>
    /\ analysis = EmptyDict
    /\ printed = <<>>
    /\ var_values = <<>>
    /\ var_result = Zero
    /\ calls = 1
    /\ StaticIdle

\* the runner writes one more piece to stdout
ParseInput(piece) ==
    /\ pc = "parse_input"
    /\ Len(stdout) + Len(piece) <= MaxChars
    /\ stdout' = stdout \o piece
    /\ UNCHANGED <<static_vars, calls, var_values, var_result, pc, detector, run, results, stderr, test_names, analysis, printed>>

\* a call of _parse_test_output(stdout, stderr)
ParseCall ==
    /\ pc = "parse_input"
    /\ test_names' = _parse_test_output(stdout, stderr)
    /\ pc' = "parsed"
    /\ UNCHANGED <<static_vars, calls, var_values, var_result, detector, run, results, stdout, stderr, analysis, printed>>

NextParse ==
    \/ \E piece \in Pieces : ParseInput(piece)
    \/ ParseCall

SpecParse == InitParse /\ [][NextParse]_vars

(* ---------------------------- the aggregator alone --------------------- *)

AggNames == { all_tests, <<"a", ":", ":", "t">> }

AggDurations == {1, 3, 5}

\* the number of records of a session
RECURSIVE record_count(_)
record_count(res) ==
    IF DOMAIN res = {} THEN 0
    ELSE LET n == CHOOSE n \in DOMAIN res : TRUE
         IN Len(res[n]) + record_count([m \in DOMAIN res \ {n} |-> res[m]])

InitAgg ==
    /\ pc = "agg_input"
    /\ detector = [test_directory |-> "tests", runs |-> 0,
                   flaky_tests |-> <<>>, test_results |-> EmptyDict]
    /\ run = 0
    /\ results = EmptyDict
    /\ stdout = <<>>
    /\ stderr = <<>>
    /\ test_names = <<>>
    /\ analysis = EmptyDict
    /\ printed = <<>>
    /\ var_values = <<>>
    /\ var_result = Zero
    /\ calls = 1
    /\ StaticIdle

\* the caller's session gets a key with an empty list (results[name] read on
\* a defaultdict)
AggTouch(name) ==
    /\ pc = "agg_input"
    /\ name \notin DOMAIN results
    /\ results' = [n \in DOMAIN results \cup {name} |->
                      IF n = name THEN <<>> ELSE results[n]]
    /\ UNCHANGED <<static_vars, calls, var_values, var_result, pc, detector, run, stdout, stderr, test_names, analysis, printed>>

\* the caller's session gets one more record, appended to the list held for
\* the name; 'runs' of a verdict is that same list ('runs': runs), so the
\* record shows through the mappings the caller holds
AggAppend(name, success, duration) ==
    /\ pc = "agg_input"
    /\ record_count(results) < MaxRecords
    /\ results' = dict_append(results, name,
                     [success |-> success, duration |-> duration,
                      run |-> (IF name \in DOMAIN results THEN Len(results[name]) ELSE 0) + 1,
                      stdout |-> <<>>, stderr |-> <<>>])
    /\ analysis' = [n \in DOMAIN analysis |-> [analysis[n] EXCEPT !.runs = results'[n]]]
    /\ earlier' = [earlier EXCEPT !.analysis =
                      [n \in DOMAIN earlier.analysis |->
                          [earlier.analysis[n] EXCEPT !.runs = results'[n]]]]
    /\ UNCHANGED <<scan_vars, file_vars, sec_vars, result, calls, var_values, var_result, pc,
                   detector, run, stdout, stderr, test_names, printed>>

\* AggCall with flaky_analysis kept from the call before and only the names
\* without a verdict worked out
AggCall_incremental ==
    /\ pc = "agg_input"
    /\ analysis' = [n \in analysed_names(results) |->
                        IF n \in DOMAIN analysis THEN analysis[n] ELSE verdict(results[n])]
    /\ pc' = "aggregated"
    /\ UNCHANGED <<static_vars, calls, var_values, var_result, detector, run, results, stdout, stderr, test_names, printed>>

\* a call of analyze_flakiness(results)
AggCall ==
    /\ pc = "agg_input"
    /\ analysis' = analyze_flakiness(results)
    /\ pc' = "aggregated"
    /\ UNCHANGED <<static_vars, calls, var_values, var_result, detector, run, results, stdout, stderr, test_names, printed>>

\* a call of _calculate_variance on the durations held for a key
AggVariance(name) ==
    /\ pc = "agg_input"
    /\ name \in DOMAIN results
    /\ var_values' = durations_of(results[name])
    /\ var_result' = _calculate_variance(var_values')
    /\ pc' = "variance"
    /\ UNCHANGED <<static_vars, calls, detector, run, results, stdout, stderr, test_names, analysis, printed>>

NextAgg ==
    \/ \E name \in AggNames : AggTouch(name)
    \/ \E name \in AggNames : AggVariance(name)
    \/ \E name \in AggNames, success \in BOOLEAN, duration \in AggDurations :
          AggAppend(name, success, duration)
    \/ AggCall

SpecAgg == InitAgg /\ [][NextAgg]_vars

(* ---------------------------- repeated aggregation --------------------- *)

\* analyze_flakiness has returned flaky_analysis; the caller keeps it (with
\* the session as it was at the call) and goes on with its session
AggReturn ==
    /\ pc = "aggregated"
    /\ calls < MaxCalls
    /\ calls' = calls + 1
    /\ earlier' = [results |-> results, analysis |-> analysis]
    /\ pc' = "agg_input"
    /\ UNCHANGED <<scan_vars, file_vars, sec_vars, result, var_values, var_result, detector,
                   run, results, stdout, stderr, test_names, analysis, printed>>

NextVerdicts ==
    \/ \E name \in AggNames, success \in BOOLEAN, duration \in CallDurations :
          AggAppend(name, success, duration)
    \/ AggCall
    \/ AggReturn

SpecVerdicts == InitAgg /\ [][NextVerdicts]_vars

(* ---------------------------- static scanner --------------------------- *)

\* largest number of snippets a scanned text is made of
MaxSnippets == 3

\* longest list of files handed to a scanning loop
MaxFiles == 3

\* the pattern lists of FlakyTestDetector.detect_flaky_patterns: each regular
\* expression with its items
time_patterns ==
    << [pattern |-> "time\\.sleep\\(",
        items |-> << <<"t", "i", "m", "e", ".", "s", "l", "e", "e", "p", "(">> >>],
       [pattern |-> "asyncio\\.sleep\\(",
        items |-> << <<"a", "s", "y", "n", "c", "i", "o", ".", "s", "l", "e", "e", "p", "(">> >>],
       [pattern |-> "threading\\.Event\\(\\)\\.wait\\(",
        items |-> << <<"t", "h", "r", "e", "a", "d", "i", "n", "g", ".", "E", "v", "e", "n", "t", "(", ")", ".", "w", "a", "i", "t", "(">> >>],
       [pattern |-> "\\.join\\(timeout=",
        items |-> << <<".", "j", "o", "i", "n", "(", "t", "i", "m", "e", "o", "u", "t", "=">> >>],
       [pattern |-> "wait_for\\(",
        items |-> << <<"w", "a", "i", "t", "_", "f", "o", "r", "(">> >>] >>

random_patterns ==
    << [pattern |-> "random\\.",
        items |-> << <<"r", "a", "n", "d", "o", "m", ".">> >>],
       [pattern |-> "numpy\\.random\\.",
        items |-> << <<"n", "u", "m", "p", "y", ".", "r", "a", "n", "d", "o", "m", ".">> >>],
       [pattern |-> "uuid\\.uuid4\\(\\)",
        items |-> << <<"u", "u", "i", "d", ".", "u", "u", "i", "d", "4", "(", ")">> >>],
       [pattern |-> "\\.shuffle\\(",
        items |-> << <<".", "s", "h", "u", "f", "f", "l", "e", "(">> >>],
       [pattern |-> "\\.choice\\(",
        items |-> << <<".", "c", "h", "o", "i", "c", "e", "(">> >>] >>

external_patterns ==
    << [pattern |-> "requests\\.",
        items |-> << <<"r", "e", "q", "u", "e", "s", "t", "s", ".">> >>],
       [pattern |-> "urllib\\.",
        items |-> << <<"u", "r", "l", "l", "i", "b", ".">> >>],
       [pattern |-> "http\\.",
        items |-> << <<"h", "t", "t", "p", ".">> >>],
       [pattern |-> "socket\\.",
        items |-> << <<"s", "o", "c", "k", "e", "t", ".">> >>],
       [pattern |-> "subprocess\\.",
        items |-> << <<"s", "u", "b", "p", "r", "o", "c", "e", "s", "s", ".">> >>],
       [pattern |-> "os\\.system\\(",
        items |-> << <<"o", "s", ".", "s", "y", "s", "t", "e", "m", "(">> >>],
       [pattern |-> "os\\.popen\\(",
        items |-> << <<"o", "s", ".", "p", "o", "p", "e", "n", "(">> >>] >>

filesystem_patterns ==
    << [pattern |-> "open\\(",
        items |-> << <<"o", "p", "e", "n", "(">> >>],
       [pattern |-> "\\.write\\(",
        items |-> << <<".", "w", "r", "i", "t", "e", "(">> >>],
       [pattern |-> "\\.read\\(",
        items |-> << <<".", "r", "e", "a", "d", "(">> >>],
       [pattern |-> "os\\.remove\\(",
        items |-> << <<"o", "s", ".", "r", "e", "m", "o", "v", "e", "(">> >>],
       [pattern |-> "os\\.mkdir\\(",
        items |-> << <<"o", "s", ".", "m", "k", "d", "i", "r", "(">> >>],
       [pattern |-> "shutil\\.",
        items |-> << <<"s", "h", "u", "t", "i", "l", ".">> >>] >>

global_patterns ==
    << [pattern |-> "global\\s+\\w+",
        items |-> << <<"g", "l", "o", "b", "a", "l">>, Sp, W >>],
       [pattern |-> "os\\.environ\\[",
        items |-> << <<"o", "s", ".", "e", "n", "v", "i", "r", "o", "n", "[">> >>],
       [pattern |-> "sys\\.path\\.",
        items |-> << <<"s", "y", "s", ".", "p", "a", "t", "h", ".">> >>],
       [pattern |-> "__import__\\(",
        items |-> << <<"_", "_", "i", "m", "p", "o", "r", "t", "_", "_", "(">> >>] >>

\* the five loops of detect_flaky_patterns in the order of the code
pattern_categories ==
    << [type |-> "TIME_DEPENDENT", patterns |-> time_patterns,
        description |-> "Test depends on timing which can be unreliable"],
       [type |-> "RANDOM_DATA", patterns |-> random_patterns,
        description |-> "Test uses random data without fixed seed"],
       [type |-> "EXTERNAL_DEPENDENCY", patterns |-> external_patterns,
        description |-> "Test depends on external resources"],
       [type |-> "FILESYSTEM", patterns |-> filesystem_patterns,
        description |-> "Test performs file system operations"],
       [type |-> "GLOBAL_STATE", patterns |-> global_patterns,
        description |-> "Test modifies global state"] >>

\* re.finditer(pattern, s): the non-overlapping matches from index i on, left
\* to right; start is the 1-based index of the first matched character and
\* end the index just after the last one
RECURSIVE finditer(_, _, _)
finditer(pat, s, i) ==
    IF i > Len(s) THEN <<>>
    ELSE LET m == MatchFrom(pat, 1, s, i, <<>>)
         IN IF m.ok THEN <<[start |-> i, end |-> m.next]>> \o finditer(pat, s, m.next)
                    ELSE finditer(pat, s, i + 1)

\* content[:match.start()].count('\n'), without the + 1
line_number_zero_based(s, start) ==
    Cardinality({k \in 1..(start - 1) : s[k] = "\n"})

\* content[:match.start()].count('\n') + 1
line_number(s, start) ==
    Cardinality({k \in 1..(start - 1) : s[k] = "\n"}) + 1

\* the matches of the patterns k.. of one category: for pattern in ...:
\* for match in re.finditer(pattern, content)
RECURSIVE category_matches(_, _, _)
category_matches(cat, k, s) ==
    IF k > Len(cat.patterns) THEN <<>>
    ELSE LET ms == finditer(cat.patterns[k].items, s, 1)
         IN [j \in 1..Len(ms) |->
                [type |-> cat.type, pattern |-> cat.patterns[k].pattern,
                 description |-> cat.description,
                 start |-> ms[j].start, end |-> ms[j].end]]
            \o category_matches(cat, k + 1, s)

\* the matches of the categories c.. of table, in the order they are appended
RECURSIVE table_matches(_, _, _)
table_matches(table, c, s) ==
    IF c > Len(table) THEN <<>>
    ELSE category_matches(table[c], 1, s) \o table_matches(table, c + 1, s)

\* the matches with the FILESYSTEM loop ahead of the EXTERNAL_DEPENDENCY loop
pattern_matches_swapped(s) ==
    table_matches(<<pattern_categories[1], pattern_categories[2], pattern_categories[4],
                    pattern_categories[3], pattern_categories[5]>>, 1, s)

\* all matches of a text in the order detect_flaky_patterns appends them
pattern_matches(s) == table_matches(pattern_categories, 1, s)

\* the dict appended for one match
pattern_dict(s, m) ==
    [type |-> m.type, pattern |-> m.pattern,
     line |-> line_number(s, m.start), description |-> m.description]

\* open(test_file_path, 'r', encoding='utf-8') and f.read() succeed
can_read(file) == file.readable /\ file.decodable

\* FlakyTestDetector.detect_flaky_patterns(test_file_path) on the files of
\* files: the list of dicts; [] when open or read raises
detect_flaky_patterns(files, test_file_path) ==
    LET file == files[test_file_path]
    IN IF ~ can_read(file) THEN <<>>
       ELSE LET ms == pattern_matches(file.content)
            IN [j \in 1..Len(ms) |-> pattern_dict(file.content, ms[j])]

(* ---------------------------- testbot scanner -------------------------- *)

UpperCase ==
    <<"A", "B", "C", "D", "E", "F", "G", "H", "I", "J", "K", "L", "M", "N", "O", "P", "Q", "R", "S", "T", "U", "V", "W", "X", "Y", "Z">>

LowerCase ==
    <<"a", "b", "c", "d", "e", "f", "g", "h", "i", "j", "k", "l", "m", "n", "o", "p", "q", "r", "s", "t", "u", "v", "w", "x", "y", "z">>

\* str.lower() on the ASCII texts of the model
lower(s) ==
    [i \in 1..Len(s) |->
        IF \E k \in 1..Len(UpperCase) : UpperCase[k] = s[i]
        THEN LowerCase[CHOOSE k \in 1..Len(UpperCase) : UpperCase[k] = s[i]]
        ELSE s[i]]

\* str.strip(): leading and trailing whitespace removed
RECURSIVE strip(_)
strip(s) ==
    IF s = <<>> THEN s
    ELSE IF Head(s) \in WhiteChars THEN strip(Tail(s))
    ELSE IF s[Len(s)] \in WhiteChars THEN strip(SubSeq(s, 1, Len(s) - 1))
    ELSE s

\* str.split('\n'): the lines of a text; the empty text has one empty line
RECURSIVE split_lines(_)
split_lines(s) ==
    IF \A k \in 1..Len(s) : s[k] # "\n" THEN <<s>>
    ELSE LET n == CHOOSE k \in 1..Len(s) :
                      s[k] = "\n" /\ \A j \in 1..(k - 1) : s[j] # "\n"
         IN <<SubSeq(s, 1, n - 1)>> \o split_lines(SubSeq(s, n + 1, Len(s)))

\* lit in s, for a non-empty literal
Contains(s, lit) == \E i \in 1..Len(s) : LitAt(s, i, lit)

\* the literals detect_flaky_patterns of testbot.py looks for
txt ==
    [ time_sleep |-> <<"t", "i", "m", "e", ".", "s", "l", "e", "e", "p", "(">>,
      date_now |-> <<"d", "a", "t", "e", ".", "n", "o", "w", "(", ")">>,
      datetime_now |-> <<"d", "a", "t", "e", "t", "i", "m", "e", ".", "n", "o", "w", "(", ")">>,
      math_random |-> <<"m", "a", "t", "h", ".", "r", "a", "n", "d", "o", "m", "(", ")">>,
      random_random |-> <<"r", "a", "n", "d", "o", "m", ".", "r", "a", "n", "d", "o", "m", "(", ")">>,
      requests_get |-> <<"r", "e", "q", "u", "e", "s", "t", "s", ".", "g", "e", "t", "(">>,
      requests_post |-> <<"r", "e", "q", "u", "e", "s", "t", "s", ".", "p", "o", "s", "t", "(">>,
      fetch |-> <<"f", "e", "t", "c", "h", "(">>,
      http |-> <<"h", "t", "t", "p", ":", "/", "/">>,
      https |-> <<"h", "t", "t", "p", "s", ":", "/", "/">>,
      open |-> <<"o", "p", "e", "n", "(">>,
      with |-> <<"w", "i", "t", "h", " ">>,
      db_commit |-> <<"d", "b", ".", "c", "o", "m", "m", "i", "t", "(">>,
      connection_execute |-> <<"c", "o", "n", "n", "e", "c", "t", "i", "o", "n", ".", "e", "x", "e", "c", "u", "t", "e", "(">>,
      cursor_execute |-> <<"c", "u", "r", "s", "o", "r", ".", "e", "x", "e", "c", "u", "t", "e", "(">>,
      test |-> <<"t", "e", "s", "t">> ]

\* the dict appended for one finding on line i
flaky_issue(i, pattern, severity, original_line, message, fix) ==
    [line |-> i, pattern |-> pattern, severity |-> severity,
     code |-> original_line, message |-> message, fix |-> fix]

\* the dicts appended for line i of the file, check by check
line_issues(i, line, path) ==
    LET line_stripped == lower(strip(line))
        original_line == strip(line)
    IN (IF Contains(line_stripped, txt.time_sleep)
        THEN <<flaky_issue(i, "TIME_DEPENDENCY", "HIGH", original_line,
                   "Uses time.sleep() - will cause timing-dependent failures",
                   "Replace with proper wait conditions or WebDriverWait")>>
        ELSE <<>>)
       \o
       (IF Contains(line_stripped, txt.date_now) \/ Contains(line_stripped, txt.datetime_now)
        THEN <<flaky_issue(i, "NON_DETERMINISTIC_TIME", "MEDIUM", original_line,
                   "Uses current time - may cause timing failures",
                   "Use fixed timestamps in tests or mock datetime")>>
        ELSE <<>>)
       \o
       (IF Contains(line_stripped, txt.math_random) \/ Contains(line_stripped, txt.random_random)
        THEN <<flaky_issue(i, "RANDOM_WITHOUT_SEED", "HIGH", original_line,
                   "Uses random values without seeding",
                   "Set random seed: random.seed(42) or use fixed test data")>>
        ELSE <<>>)
       \o
       (IF /\ \/ Contains(line_stripped, txt.requests_get)
              \/ Contains(line_stripped, txt.requests_post)
              \/ Contains(line_stripped, txt.fetch)
           /\ Contains(line_stripped, txt.http) \/ Contains(line_stripped, txt.https)
        THEN <<flaky_issue(i, "EXTERNAL_HTTP", "HIGH", original_line,
                   "External HTTP request - will fail if service is down",
                   "Mock external calls: @mock.patch(\"requests.get\")")>>
        ELSE <<>>)
       \o
       (IF Contains(line_stripped, txt.open) /\ ~ Contains(line, txt.with)
        THEN <<flaky_issue(i, "RESOURCE_LEAK", "MEDIUM", original_line,
                   "File opened without proper cleanup",
                   "Use \"with open()\" context manager")>>
        ELSE <<>>)
       \o
       (IF /\ \/ Contains(line_stripped, txt.db_commit)
              \/ Contains(line_stripped, txt.connection_execute)
              \/ Contains(line_stripped, txt.cursor_execute)
           /\ Contains(lower(path), txt.test)
        THEN <<flaky_issue(i, "DATABASE_DEPENDENCY", "MEDIUM", original_line,
                   "Database operation in test - may cause race conditions",
                   "Use database transactions or test fixtures")>>
        ELSE <<>>)

\* the findings of the lines i.. of lines
RECURSIVE issues_from(_, _, _)
issues_from(lines, i, path) ==
    IF i > Len(lines) THEN <<>>
    ELSE line_issues(i, lines[i], path) \o issues_from(lines, i + 1, path)

\* detect_flaky_patterns(file_content, file_path) of testbot.py
testbot_detect_flaky_patterns(file_content, path) ==
    issues_from(split_lines(file_content), 1, path)

(* ---------------------------- one file scanned ------------------------- *)

\* the pieces a scanned text is made of
Snippets ==
    { <<"t", "i", "m", "e", ".", "s", "l", "e", "e", "p", "(">>,
      <<"a", "s", "y", "n", "c", "i", "o", ".", "s", "l", "e", "e", "p", "(">>,
      <<"n", "u", "m", "p", "y", ".", "r", "a", "n", "d", "o", "m", ".">>,
      <<"o", "s", ".", "p", "o", "p", "e", "n", "(">>,
      <<"g", "l", "o", "b", "a", "l", "\n", "y">>,
      <<"\n">> }

\* the texts made of at most n of the snippets
RECURSIVE texts_of(_, _)
texts_of(snippets, n) ==
    IF n = 0 THEN { <<>> }
    ELSE LET shorter == texts_of(snippets, n - 1)
         IN shorter \cup {t \o s : t \in shorter, s \in snippets}

ScanContents == texts_of(Snippets, MaxSnippets)

test_a_py == <<"t", "e", "s", "t", "_", "a", ".", "p", "y">>
test_b_py == <<"t", "e", "s", "t", "_", "b", ".", "p", "y">>

app_py == <<"a", "p", "p", ".", "p", "y">>

\* a readable UTF-8 file with the given text
text_file(text) == [readable |-> TRUE, decodable |-> TRUE, content |-> text]

\* one file on disk, no scan made yet
InitScan ==
    /\ pc = "scan"
    /\ detector = [test_directory |-> "tests", runs |-> 1,
                   flaky_tests |-> <<>>, test_results |-> EmptyDict]
    /\ run = 1
    /\ results = EmptyDict
    /\ stdout = <<>>
    /\ stderr = <<>>
    /\ test_names = <<>>
    /\ analysis = EmptyDict
    /\ printed = <<>>
    /\ var_values = <<>>
    /\ var_result = Zero
    /\ calls = 1
    /\ file_path = test_a_py
    /\ fs \in {[p \in {file_path} |-> text_file(text)] : text \in ScanContents}
    /\ content = <<>>
    /\ scanned = {}
    /\ flaky_patterns = <<>>
    /\ flaky_issues = <<>>
    /\ test_files = <<>>
    /\ file_index = [main |-> 1, testbot |-> 1]
    /\ pattern_analysis = <<>>
    /\ all_flaky_issues = <<>>
    /\ scan_log = <<>>
    /\ SecurityIdle
    /\ result = [run |-> 0, returncode |-> 0, duration |-> 0]
    /\ earlier = [results |-> <<>>, analysis |-> <<>>]

\* patterns = detector.detect_flaky_patterns(test_file)
DetectorScan ==
    /\ pc = "scan"
    /\ "detector" \notin scanned
    /\ content' = fs[file_path].content
    /\ flaky_patterns' = detect_flaky_patterns(fs, file_path)
    /\ scanned' = scanned \cup {"detector"}
    /\ UNCHANGED <<file_path, flaky_issues, file_vars, sec_vars, result, earlier, pc, detector, run, results, stdout,
                   stderr, test_names, analysis, printed, var_values, var_result, calls>>

\* content = f.read(); flaky_issues = detect_flaky_patterns(content, file_path)
TestbotScan ==
    /\ pc = "scan"
    /\ "testbot" \notin scanned
    /\ content' = fs[file_path].content
    /\ flaky_issues' = testbot_detect_flaky_patterns(content', file_path)
    /\ scanned' = scanned \cup {"testbot"}
    /\ UNCHANGED <<file_path, flaky_patterns, file_vars, sec_vars, result, earlier, pc, detector, run, results, stdout,
                   stderr, test_names, analysis, printed, var_values, var_result, calls>>

NextScan ==
    \/ DetectorScan
    \/ TestbotScan

SpecScan == InitScan /\ [][NextScan]_vars

(* ---------------------------- a list of files scanned ------------------ *)

FilePaths == {test_a_py, test_b_py}


\* what a file on disk can be: open raises; the bytes are not UTF-8 (content
\* is what errors='ignore' leaves); empty; two lines with constructs
FileStates ==
    { [readable |-> FALSE, decodable |-> TRUE, content |-> <<>>],
      [readable |-> TRUE, decodable |-> FALSE, content |-> txt.time_sleep],
      text_file(<<>>),
      text_file(<<"n", "u", "m", "p", "y", ".", "r", "a", "n", "d", "o", "m", ".", "\n", "o", "p", "e", "n", "(">>) }

\* the lists the globs can return: a path can be listed more than once
FileLists == UNION {[1..n -> FilePaths] : n \in 0..MaxFiles}

InitFiles ==
    /\ pc = "files"
    /\ detector = [test_directory |-> "tests", runs |-> 1,
                   flaky_tests |-> <<>>, test_results |-> EmptyDict]
    /\ run = 1
    /\ results = EmptyDict
    /\ stdout = <<>>
    /\ stderr = <<>>
    /\ test_names = <<>>
    /\ analysis = EmptyDict
    /\ printed = <<>>
    /\ var_values = <<>>
    /\ var_result = Zero
    /\ calls = 1
    /\ file_path = <<>>
    /\ fs \in [FilePaths -> FileStates]
    /\ content = <<>>
    /\ scanned = {}
    /\ flaky_patterns = <<>>
    /\ flaky_issues = <<>>
    /\ test_files \in FileLists
    /\ file_index = [main |-> 1, testbot |-> 1]
    /\ pattern_analysis = <<>>
    /\ all_flaky_issues = <<>>
    /\ scan_log = <<>>
    /\ SecurityIdle
    /\ result = [run |-> 0, returncode |-> 0, duration |-> 0]
    /\ earlier = [results |-> <<>>, analysis |-> <<>>]

\* d[k] = v
dict_set(d, k, v) == [x \in DOMAIN d \cup {k} |-> IF x = k THEN v ELSE d[x]]

\* the body of main's "for test_file in test_files" where a file that cannot
\* be read ends the loop
ScanFile_aborting ==
    LET i == file_index.main
        test_file == test_files[i]
        patterns == detect_flaky_patterns(fs, test_file)
    IN /\ pc = "files"
       /\ i <= Len(test_files)
       /\ file_path' = test_file
       /\ content' = IF can_read(fs[test_file]) THEN fs[test_file].content ELSE content
       /\ printed' = IF can_read(fs[test_file]) THEN printed
                     ELSE Append(printed, [msg |-> "Error analyzing", file |-> test_file])
       /\ flaky_patterns' = patterns
       /\ pattern_analysis' = IF flaky_patterns' # <<>>
                              THEN dict_set(pattern_analysis, test_file, flaky_patterns')
                              ELSE pattern_analysis
       /\ scan_log' = IF can_read(fs[test_file])
                      THEN Append(scan_log, [scanner |-> "detector", file |-> test_file,
                                             result |-> flaky_patterns'])
                      ELSE scan_log
       /\ file_index' = [file_index EXCEPT !.main =
                            IF can_read(fs[test_file]) THEN i + 1 ELSE Len(test_files) + 1]
       /\ UNCHANGED <<sec_vars, result, earlier, scanned, flaky_issues, fs, test_files, all_flaky_issues, pc, detector,
                      run, results, stdout, stderr, test_names, analysis, var_values,
                      var_result, calls>>

\* the body of main's "for test_file in test_files": the file is scanned and
\* a non-empty result is stored under its path
ScanFile ==
    LET i == file_index.main
        test_file == test_files[i]
        patterns == detect_flaky_patterns(fs, test_file)
    IN /\ pc = "files"
       /\ i <= Len(test_files)
       /\ file_path' = test_file
       /\ content' = IF can_read(fs[test_file]) THEN fs[test_file].content ELSE content
       /\ printed' = IF can_read(fs[test_file]) THEN printed
                     ELSE Append(printed, [msg |-> "Error analyzing", file |-> test_file])
       /\ flaky_patterns' = patterns
       /\ pattern_analysis' = IF flaky_patterns' # <<>>
                              THEN dict_set(pattern_analysis, test_file, flaky_patterns')
                              ELSE pattern_analysis
       /\ scan_log' = Append(scan_log, [scanner |-> "detector", file |-> test_file,
                                        result |-> flaky_patterns'])
       /\ file_index' = [file_index EXCEPT !.main = i + 1]
       /\ UNCHANGED <<sec_vars, result, earlier, scanned, flaky_issues, fs, test_files, all_flaky_issues, pc, detector,
                      run, results, stdout, stderr, test_names, analysis, var_values,
                      var_result, calls>>

\* the body of "for file_path in filtered_files" of
\* analyze_flaky_patterns_only where the findings of the files scanned so
\* far are handed on to the next scan
TestbotScanFile_accumulating ==
    LET i == file_index.testbot
        path == test_files[i]
        issues == flaky_issues \o testbot_detect_flaky_patterns(fs[path].content, path)
    IN /\ pc = "files"
       /\ i <= Len(test_files)
       /\ file_index' = [file_index EXCEPT !.testbot = i + 1]
       /\ IF fs[path].readable
          THEN /\ content' = fs[path].content
               /\ flaky_issues' = issues
               /\ all_flaky_issues' =
                      all_flaky_issues
                          \o [k \in 1..Len(flaky_issues') |-> <<path, flaky_issues'[k]>>]
               /\ scan_log' = Append(scan_log, [scanner |-> "testbot", file |-> path,
                                                result |-> flaky_issues'])
          ELSE UNCHANGED <<content, flaky_issues, all_flaky_issues, scan_log>>
       /\ UNCHANGED <<sec_vars, result, earlier, file_path, scanned, flaky_patterns, fs, test_files, pattern_analysis,
                      pc, detector, run, results, stdout, stderr, test_names, analysis,
                      printed, var_values, var_result, calls>>

\* the body of "for file_path in filtered_files" of
\* analyze_flaky_patterns_only: a file that cannot be opened is skipped
TestbotScanFile ==
    LET i == file_index.testbot
        path == test_files[i]
        issues == testbot_detect_flaky_patterns(fs[path].content, path)
    IN /\ pc = "files"
       /\ i <= Len(test_files)
       /\ file_index' = [file_index EXCEPT !.testbot = i + 1]
       /\ IF fs[path].readable
          THEN /\ content' = fs[path].content
               /\ flaky_issues' = issues
               /\ all_flaky_issues' =
                      all_flaky_issues
                          \o [k \in 1..Len(flaky_issues') |-> <<path, flaky_issues'[k]>>]
               /\ scan_log' = Append(scan_log, [scanner |-> "testbot", file |-> path,
                                                result |-> flaky_issues'])
          ELSE UNCHANGED <<content, flaky_issues, all_flaky_issues, scan_log>>
       /\ UNCHANGED <<sec_vars, result, earlier, file_path, scanned, flaky_patterns, fs, test_files, pattern_analysis,
                      pc, detector, run, results, stdout, stderr, test_names, analysis,
                      printed, var_values, var_result, calls>>

NextFiles ==
    \/ ScanFile
    \/ TestbotScanFile

SpecFiles == InitFiles /\ [][NextFiles]_vars

(* ---------------------------- main through the report ----------------- *)

\* the summary statistics of the report; a level is held as its parts, and
\* 'FLAKY' in data['flakiness_level'] is true of the levels with a part FLAKY
summary(mapping) ==
    [total_tests |-> Cardinality(DOMAIN mapping),
     flaky_tests |-> {name \in DOMAIN mapping :
                         \E k \in 1..Len(mapping[name].flakiness_level) :
                             mapping[name].flakiness_level[k] = "FLAKY"},
     failing_tests |-> {name \in DOMAIN mapping :
                           mapping[name].flakiness_level = <<"FAILING">>},
     stable_tests |-> {name \in DOMAIN mapping :
                          mapping[name].flakiness_level = <<"STABLE">>}]

\* generate_flaky_test_report, the report held as its summary and its
\* pattern counts.  pattern_counts is bound inside "if pattern_analysis:"
\* only, and "if pattern_counts:" reads it in every call: with an empty
\* pattern_analysis the read raises UnboundLocalError
generate_flaky_test_report(mapping, patterns) ==
    LET hits == UNION {{<<f, k>> : k \in 1..Len(patterns[f])} : f \in DOMAIN patterns}
        type_of(h) == patterns[h[1]][h[2]].type
    IN IF DOMAIN patterns = {}
       THEN [raised |-> "UnboundLocalError"]
       ELSE [raised |-> "",
             summary |-> summary(mapping),
             pattern_counts |-> [t \in {type_of(h) : h \in hits} |->
                                    Cardinality({h \in hits : type_of(h) = t})]]

\* pattern_analysis = {}; with --pattern-analysis, scan_test_files() finds
\* files (each holding the text of file) and the loop over them comes next
MainPatterns(requested, files, file) ==
    /\ pc = "analyzed"
    /\ pattern_analysis' = <<>>
    /\ IF requested
       THEN /\ printed' = Append(printed, [msg |-> "Analyzing test files", run |-> 0])
            /\ test_files' = files
            /\ fs' = [f \in {files[k] : k \in 1..Len(files)} |-> file]
            /\ pc' = "files"
       ELSE /\ pc' = "report"
            /\ UNCHANGED <<printed, test_files, fs>>
    /\ UNCHANGED <<scan_vars, file_index, all_flaky_issues, scan_log, sec_vars, result, earlier,
                   detector, run, results, stdout, stderr, test_names, analysis, var_values,
                   var_result, calls>>

\* report = detector.generate_flaky_test_report(analysis, pattern_analysis),
\* then the report is written to args.output or, without --output (output
\* = <<>>), printed; an exception of the call ends main with a traceback
MainReport(output) ==
    LET report == generate_flaky_test_report(analysis, pattern_analysis)
    IN /\ \/ pc = "report"
          \/ pc = "files" /\ file_index.main > Len(test_files)
       /\ IF report.raised # ""
          THEN /\ pc' = "crashed"
               /\ printed' = Append(printed, [msg |-> "Traceback", error |-> report.raised])
               /\ fs' = fs
          ELSE /\ pc' = "done"
               /\ IF output # <<>>
                  THEN /\ fs' = dict_set(fs, output, text_file(report))
                       /\ printed' = Append(printed, [msg |-> "Report saved", file |-> output])
                  ELSE /\ fs' = fs
                       /\ printed' = Append(printed, [msg |-> "report", report |-> report])
       /\ UNCHANGED <<scan_vars, test_files, file_index, pattern_analysis, all_flaky_issues,
                      scan_log, sec_vars, result, earlier, detector, run, results, stdout,
                      stderr, test_names, analysis, var_values, var_result, calls>>

\* main from the run loop to the report: no file, one file or two files
\* found by scan_test_files, and a report file name or none
NextMain ==
    \/ RunStart
    \/ SubprocessEnds
    \/ MainNoResults
    \/ MainAnalyze
    \/ \E requested \in BOOLEAN,
          files \in { <<>>, <<test_a_py>>, <<test_a_py, test_b_py>> },
          file \in FileStates :
            MainPatterns(requested, files, file)
    \/ ScanFile
    \/ \E output \in { <<>>, <<"r", "e", "p", "o", "r", "t", ".", "t", "x", "t">> } :
          MainReport(output)

SpecMain == InitLive /\ [][NextMain]_vars

(* ---------------------------- security analysis ----------------------- *)

\* largest number of snippets the content of an analysed element is made of
MaxParts == 2

financial_keywords ==
    << <<"p", "a", "y", "m", "e", "n", "t">>,
       <<"c", "h", "a", "r", "g", "e">>,
       <<"b", "i", "l", "l", "i", "n", "g">>,
       <<"m", "o", "n", "e", "y">>,
       <<"p", "r", "i", "c", "e">>,
       <<"c", "o", "s", "t">>,
       <<"t", "r", "a", "n", "s", "a", "c", "t", "i", "o", "n">>,
       <<"r", "e", "f", "u", "n", "d">>,
       <<"i", "n", "v", "o", "i", "c", "e">> >>

auth_keywords ==
    << <<"a", "u", "t", "h">>,
       <<"l", "o", "g", "i", "n">>,
       <<"p", "a", "s", "s", "w", "o", "r", "d">>,
       <<"t", "o", "k", "e", "n">>,
       <<"s", "e", "s", "s", "i", "o", "n">>,
       <<"c", "r", "e", "d", "e", "n", "t", "i", "a", "l">>,
       <<"s", "i", "g", "n", "i", "n">>,
       <<"s", "i", "g", "n", "u", "p">> >>

input_keywords ==
    << <<"i", "n", "p", "u", "t">>,
       <<"u", "p", "l", "o", "a", "d">>,
       <<"f", "i", "l", "e">>,
       <<"f", "o", "r", "m">>,
       <<"s", "u", "b", "m", "i", "t">>,
       <<"v", "a", "l", "i", "d", "a", "t", "e">>,
       <<"s", "a", "n", "i", "t", "i", "z", "e">> >>

crypto_keywords ==
    << <<"e", "n", "c", "r", "y", "p", "t">>,
       <<"d", "e", "c", "r", "y", "p", "t">>,
       <<"h", "a", "s", "h">>,
       <<"s", "i", "g", "n">>,
       <<"v", "e", "r", "i", "f", "y">>,
       <<"c", "r", "y", "p", "t", "o">>,
       <<"r", "a", "n", "d", "o", "m">>,
       <<"k", "e", "y">> >>

\* any(keyword in element_name.lower() for keyword in keywords)
has_keyword(name, keywords) ==
    \E k \in 1..Len(keywords) : Contains(lower(name), keywords[k])

\* re.search(pattern, s): the pattern matches somewhere in s
search(pat, s) == \E i \in 1..Len(s) : MatchFrom(pat, 1, s, i, <<>>).ok

\* re.search(literal, s, re.IGNORECASE) for a lower-case literal
search_ignorecase(lit, s) == Contains(lower(s), lit)

\* the names on the left of the secret_patterns; each pattern is
\* name\s*=\s*["\'][^"\']{3,}["\']
secret_names ==
    << <<"p", "a", "s", "s", "w", "o", "r", "d">>,
       <<"s", "e", "c", "r", "e", "t">>,
       <<"a", "p", "i", "_", "k", "e", "y">>,
       <<"p", "r", "i", "v", "a", "t", "e", "_", "k", "e", "y">>,
       <<"t", "o", "k", "e", "n">> >>

secret_pattern(name) == <<name, Sp0, <<"=">>, Sp0, Quote, NotQuote3, Quote>>

exclude_patterns ==
    << <<"t", "e", "s", "t", "_">>,
       <<"e", "x", "a", "m", "p", "l", "e">>,
       <<"s", "a", "m", "p", "l", "e">>,
       <<"d", "e", "m", "o">>,
       <<"p", "l", "a", "c", "e", "h", "o", "l", "d", "e", "r">> >>

\* check_hardcoded_secrets(content): some secret pattern matches (ignoring
\* case) and no exclude pattern occurs anywhere in the content
check_hardcoded_secrets(text) ==
    /\ \E k \in 1..Len(secret_names) : search(secret_pattern(secret_names[k]), lower(text))
    /\ ~ \E k \in 1..Len(exclude_patterns) : search_ignorecase(exclude_patterns[k], text)

\* the weak_random_patterns (matched with the case as written)
weak_random_patterns ==
    << << <<"M", "a", "t", "h", ".", "r", "a", "n", "d", "o", "m", "(", ")">> >>,
       << <<"r", "a", "n", "d", "o", "m", ".", "r", "a", "n", "d", "o", "m", "(", ")">> >>,
       << <<"n", "e", "w">>, Sp, <<"R", "a", "n", "d", "o", "m", "(", ")">> >>,
       << <<"r", "a", "n", "d", "(", ")">> >> >>

security_contexts ==
    << <<"t", "o", "k", "e", "n">>,
       <<"p", "a", "s", "s", "w", "o", "r", "d">>,
       <<"k", "e", "y">>,
       <<"s", "e", "c", "r", "e", "t">>,
       <<"e", "n", "c", "r", "y", "p", "t">>,
       <<"d", "e", "c", "r", "y", "p", "t">>,
       <<"a", "u", "t", "h">>,
       <<"l", "o", "g", "i", "n">> >>

\* check_weak_random without the "if not has_security_context" return
check_weak_random_ungated(text) ==
    \E k \in 1..Len(weak_random_patterns) : search(weak_random_patterns[k], text)

\* check_weak_random(content)
check_weak_random(text) ==
    LET has_security_context ==
            \E k \in 1..Len(security_contexts) : search_ignorecase(security_contexts[k], text)
    IN IF ~ has_security_context THEN FALSE
       ELSE \E k \in 1..Len(weak_random_patterns) : search(weak_random_patterns[k], text)

\* the verbs of the sql_patterns VERB.*\+.*\$
sql_verbs ==
    << <<"s", "e", "l", "e", "c", "t">>,
       <<"i", "n", "s", "e", "r", "t">>,
       <<"u", "p", "d", "a", "t", "e">>,
       <<"d", "e", "l", "e", "t", "e">> >>

\* re.search(r'VERB.*\+.*\$', s, re.IGNORECASE): the verb, later a "+" and
\* later a "$", with no newline from the end of the verb to the "$"
verb_plus_dollar(verb, s) ==
    \E i \in 1..Len(s) :
        /\ LitAt(lower(s), i, verb)
        /\ \E j, k \in (i + Len(verb))..Len(s) :
              /\ j < k
              /\ s[j] = "+"
              /\ s[k] = "$"
              /\ \A t \in (i + Len(verb))..k : s[t] # "\n"

\* query\s*=\s*["\'][^"\']*\+[^"\']*["\'] and
\* execute\s*\(\s*["\'][^"\']*\+[^"\']*["\']
sql_string_patterns ==
    << << <<"q", "u", "e", "r", "y">>, Sp0, <<"=">>, Sp0, Quote, NotQuotePlus, Quote >>,
       << <<"e", "x", "e", "c", "u", "t", "e">>, Sp0, <<"(">>, Sp0, Quote, NotQuotePlus, Quote >> >>

db_contexts ==
    << <<"d", "a", "t", "a", "b", "a", "s", "e">>,
       <<"d", "b", ".">>,
       <<"q", "u", "e", "r", "y">>,
       <<"e", "x", "e", "c", "u", "t", "e">>,
       <<"s", "e", "l", "e", "c", "t">>,
       <<"i", "n", "s", "e", "r", "t">>,
       <<"u", "p", "d", "a", "t", "e">>,
       <<"d", "e", "l", "e", "t", "e">> >>

\* check_sql_injection_risk(content)
check_sql_injection_risk(text) ==
    LET has_db_context ==
            \E k \in 1..Len(db_contexts) : search_ignorecase(db_contexts[k], text)
    IN IF ~ has_db_context THEN FALSE
       ELSE \/ \E k \in 1..Len(sql_verbs) : verb_plus_dollar(sql_verbs[k], text)
            \/ \E k \in 1..Len(sql_string_patterns) :
                  search(sql_string_patterns[k], lower(text))

\* high_if_low raising LOW to MEDIUM
high_if_low_medium(level) == IF level = "LOW" THEN "MEDIUM" ELSE level

\* "HIGH" if risk_level == "LOW" else risk_level
high_if_low(level) == IF level = "LOW" THEN "HIGH" ELSE level

\* the pieces the content of an element is made of
SecSnippets ==
    { <<"M", "a", "t", "h", ".", "r", "a", "n", "d", "o", "m", "(", ")">>,
      <<"n", "e", "w", " ", "R", "a", "n", "d", "o", "m", "(", ")">>,
      <<"t", "o", "k", "e", "n">>,
      <<"K", "E", "Y">>,
      <<"p", "a", "s", "s", "w", "o", "r", "d", "=", "'", "a", "b", "c", "'">>,
      <<"t", "e", "s", "t", "_">>,
      <<"S", "E", "L", "E", "C", "T", " ", "a", "+", "$", "b">> }

SecContents == texts_of(SecSnippets, MaxParts)

ElementNames ==
    { <<"p", "r", "o", "c", "e", "s", "s", "_", "p", "a", "y", "m", "e", "n", "t">>,
      <<"l", "o", "g", "i", "n">>,
      <<"u", "p", "l", "o", "a", "d", "_", "f", "i", "l", "e">>,
      <<"h", "a", "s", "h", "_", "k", "e", "y">>,
      <<"h", "e", "l", "p", "e", "r">>,
      <<"C", "h", "a", "r", "g", "e", "_", "T", "o", "k", "e", "n">> }

\* scan_codebase hands an element of a file to analyze_security_risks:
\* security_issues = [], risk_level = "LOW"
InitSec ==
    /\ pc = "scan"
    /\ detector = [test_directory |-> "tests", runs |-> 1,
                   flaky_tests |-> <<>>, test_results |-> EmptyDict]
    /\ run = 1
    /\ results = EmptyDict
    /\ stdout = <<>>
    /\ stderr = <<>>
    /\ test_names = <<>>
    /\ analysis = EmptyDict
    /\ printed = <<>>
    /\ var_values = <<>>
    /\ var_result = Zero
    /\ calls = 1
    /\ file_path = app_py
    /\ content \in SecContents
    /\ fs = [p \in {file_path} |-> text_file(content)]
    /\ scanned = {}
    /\ flaky_patterns = <<>>
    /\ flaky_issues = <<>>
    /\ test_files = <<>>
    /\ file_index = [main |-> 1, testbot |-> 1]
    /\ pattern_analysis = <<>>
    /\ all_flaky_issues = <<>>
    /\ scan_log = <<>>
    /\ element_name \in ElementNames
    /\ has_tests \in BOOLEAN
    /\ doc_score = 0
    /\ check_no = 1
    /\ security_issues = <<>>
    /\ risk_level = "LOW"
    /\ result = [run |-> 0, returncode |-> 0, duration |-> 0]
    /\ earlier = [results |-> <<>>, analysis |-> <<>>]

\* what a check leaves alone
SecUnchanged ==
    UNCHANGED <<scan_vars, file_vars, element_name, has_tests, doc_score, result, earlier,
                pc, detector, run, results, stdout, stderr, test_names, analysis, printed,
                var_values, var_result, calls>>

\* 1. FINANCIAL FUNCTIONS WITHOUT TESTS
CheckFinancial ==
    /\ check_no = 1
    /\ check_no' = 2
    /\ IF has_keyword(element_name, financial_keywords)
       THEN IF ~ has_tests
            THEN /\ security_issues' = Append(security_issues, "HANDLES MONEY + NO TESTS")
                 /\ risk_level' = "CRITICAL"
            ELSE /\ security_issues' = Append(security_issues, "HANDLES MONEY")
                 /\ risk_level' = high_if_low(risk_level)
       ELSE UNCHANGED <<security_issues, risk_level>>
    /\ SecUnchanged

\* 2. AUTHENTICATION RISKS
CheckAuth ==
    /\ check_no = 2
    /\ check_no' = 3
    /\ IF has_keyword(element_name, auth_keywords)
       THEN IF ~ has_tests
            THEN /\ security_issues' = Append(security_issues, "AUTH FUNCTION + NO TESTS")
                 /\ risk_level' = "CRITICAL"
            ELSE /\ security_issues' = Append(security_issues, "AUTH FUNCTION")
                 /\ risk_level' = high_if_low(risk_level)
       ELSE UNCHANGED <<security_issues, risk_level>>
    /\ SecUnchanged

\* 3. INPUT VALIDATION GAPS
CheckInput ==
    /\ check_no = 3
    /\ check_no' = 4
    /\ IF has_keyword(element_name, input_keywords) /\ ~ has_tests
       THEN /\ security_issues' = Append(security_issues, "INPUT HANDLING + NO TESTS")
            /\ risk_level' = high_if_low(risk_level)
       ELSE UNCHANGED <<security_issues, risk_level>>
    /\ SecUnchanged

\* 4. CRYPTOGRAPHIC WEAKNESSES
CheckCrypto ==
    /\ check_no = 4
    /\ check_no' = 5
    /\ IF has_keyword(element_name, crypto_keywords) /\ ~ has_tests
       THEN /\ security_issues' = Append(security_issues, "CRYPTO FUNCTION + NO TESTS")
            /\ risk_level' = high_if_low(risk_level)
       ELSE UNCHANGED <<security_issues, risk_level>>
    /\ SecUnchanged

\* if check_hardcoded_secrets(content)
CheckSecrets ==
    /\ check_no = 5
    /\ check_no' = 6
    /\ IF check_hardcoded_secrets(content)
       THEN /\ security_issues' = Append(security_issues, "HARDCODED SECRETS")
            /\ risk_level' = "CRITICAL"
       ELSE UNCHANGED <<security_issues, risk_level>>
    /\ SecUnchanged

\* if check_weak_random(content)
CheckWeakRandom ==
    /\ check_no = 6
    /\ check_no' = 7
    /\ IF check_weak_random(content)
       THEN /\ security_issues' = Append(security_issues, "WEAK RANDOM GENERATION")
            /\ risk_level' = "CRITICAL"
       ELSE UNCHANGED <<security_issues, risk_level>>
    /\ SecUnchanged

\* the last check with risk_level = "HIGH" in place of the conditional
CheckSql_overwriting ==
    /\ check_no = 7
    /\ check_no' = 8
    /\ IF check_sql_injection_risk(content)
       THEN /\ security_issues' = Append(security_issues, "SQL INJECTION RISK")
            /\ risk_level' = "HIGH"
       ELSE UNCHANGED <<security_issues, risk_level>>
    /\ SecUnchanged

\* if check_sql_injection_risk(content); then return security_issues,
\* risk_level (check_no = 8)
CheckSql ==
    /\ check_no = 7
    /\ check_no' = 8
    /\ IF check_sql_injection_risk(content)
       THEN /\ security_issues' = Append(security_issues, "SQL INJECTION RISK")
            /\ risk_level' = high_if_low(risk_level)
       ELSE UNCHANGED <<security_issues, risk_level>>
    /\ SecUnchanged

\* assess_risk(has_tests, doc_score, max_doc_score)
assess_risk(tested, score, max_score) ==
    IF ~ tested /\ score < 2 THEN "HIGH RISK"
    ELSE IF ~ tested /\ score >= 2 THEN "MEDIUM RISK"
    ELSE IF tested /\ score < 2 THEN "MEDIUM RISK"
    ELSE "LOW RISK"

\* the if/elif chain that words the status line of an element, the wording
\* held as its tests part and its docs part
status_line(tested, score) ==
    IF tested /\ score >= 3 THEN [tests |-> "HAS TESTS", docs |-> "GOOD DOCS"]
    ELSE IF tested /\ score < 2 THEN [tests |-> "HAS TESTS", docs |-> "POOR DOCS"]
    ELSE IF ~ tested /\ score >= 2 THEN [tests |-> "NO TESTS", docs |-> "GOOD DOCS"]
    ELSE [tests |-> "NO TESTS", docs |-> "NO DOCS"]

\* the rest of scan_codebase's loop body for the element, after
\* analyze_security_risks has returned: doc_score is what
\* analyze_documentation gave (score; analyze_security_risks does not read
\* it, so it is drawn here), set to 3 where --fix-docs has added a docstring
\* (documented), then the risk is assessed and the status line printed
StatusLine(score, documented) ==
    /\ pc = "scan"
    /\ check_no = 8
    /\ documented => score < 2
    /\ check_no' = 9
    /\ doc_score' = IF documented THEN 3 ELSE score
    /\ printed' = Append(printed, [msg |-> "status", name |-> element_name,
                                   line |-> status_line(has_tests, doc_score'),
                                   risk |-> assess_risk(has_tests, doc_score', 4)])
    /\ UNCHANGED <<scan_vars, file_vars, element_name, has_tests, security_issues, risk_level,
                   result, earlier, pc, detector, run, results, stdout, stderr, test_names,
                   analysis, var_values, var_result, calls>>

NextSec ==
    \/ CheckFinancial
    \/ CheckAuth
    \/ CheckInput
    \/ CheckCrypto
    \/ CheckSecrets
    \/ CheckWeakRandom
    \/ CheckSql
    \/ TestbotScan

SpecSec == InitSec /\ [][NextSec]_vars

\* the analysis of one element followed by its status line
SpecStatus ==
    InitSec /\ [][NextSec \/ \E score \in 0..4, documented \in BOOLEAN :
                               StatusLine(score, documented)]_vars

(* ---------------------------- properties ------------------------------- *)

\* the number of successful records of a list of run records
SuccessCount(runs) == Cardinality({i \in 1..Len(runs) : runs[i].success})

\* sum of the durations, and of their squares, computed over the indices
RECURSIVE SumTo(_, _)
SumTo(f, n) == IF n = 0 THEN 0 ELSE f[n] + SumTo(f, n - 1)

DurationSum(ds) == SumTo(ds, Len(ds))
DurationSquareSum(ds) == SumTo([i \in 1..Len(ds) |-> ds[i] * ds[i]], Len(ds))

\* C1: in the mapping analyze_flakiness returns for the session built by the
\* run loop, every test has successful_runs + failed_runs = total_runs and
\* total_runs is the number of run records the session holds for that test.
C1_CountsAddUp ==
    pc = "analyzed" =>
        \A name \in DOMAIN analysis :
            /\ name \in DOMAIN results
            /\ analysis[name].successful_runs + analysis[name].failed_runs
                  = analysis[name].total_runs
            /\ analysis[name].total_runs = Len(results[name])
            /\ analysis[name].successful_runs = SuccessCount(results[name])

\* a verdict of the run loop's session with both successful and failed runs
C1_Witness ==
    /\ pc = "analyzed"
    /\ \E name \in DOMAIN analysis :
          analysis[name].successful_runs >= 1 /\ analysis[name].failed_runs >= 1

\* C2: the first part of every flakiness_level is STABLE exactly when all
\* recorded runs succeeded, FAILING exactly when none did and FLAKY exactly
\* when some but not all did, the level is that part alone or that part
\* followed by the performance modifier, and success_rate is the share of
\* successful runs.
C2_BaseTier ==
    pc = "aggregated" =>
        \A name \in DOMAIN analysis :
            LET k == SuccessCount(results[name])
                n == Len(results[name])
                level == analysis[name].flakiness_level
                base == Head(level)
            IN /\ (base = "STABLE") <=> (k = n)
               /\ (base = "FAILING") <=> (k = 0)
               /\ (base = "FLAKY") <=> (0 < k /\ k < n)
               /\ level \in { <<base>>, <<base, "_PERFORMANCE">> }
               /\ analysis[name].success_rate.num * n
                     = k * analysis[name].success_rate.den

\* 3 of 5 runs succeed: FLAKY with success rate 3/5
C2_Witness ==
    /\ pc = "aggregated"
    /\ \E name \in DOMAIN analysis :
          /\ Len(results[name]) = 5
          /\ SuccessCount(results[name]) = 3
          /\ Head(analysis[name].flakiness_level) = "FLAKY"
          /\ analysis[name].success_rate = [num |-> 3, den |-> 5]

\* the run r has a failed record with the timeout duration in the session
HasTimeoutRecord(r) ==
    \E name \in DOMAIN results : \E j \in 1..Len(results[name]) :
        /\ results[name][j].run = r
        /\ ~results[name][j].success
        /\ results[name][j].duration = timeout_duration

\* C3: every run that timed out has, in the session, a record with its run
\* index, success false and the timeout ceiling as duration.
C3_TimeoutRecorded ==
    \A i \in 1..Len(printed) :
        printed[i].msg = "timed out" => HasTimeoutRecord(printed[i].run)

\* C4: every run that failed with an invocation error other than a timeout
\* has, in the session, a failed record with its run index and the error text.
C4_ErrorRecorded ==
    \A i \in 1..Len(printed) :
        printed[i].msg = "failed" =>
            \E name \in DOMAIN results : \E j \in 1..Len(results[name]) :
                /\ results[name][j].run = printed[i].run
                /\ ~results[name][j].success
                /\ results[name][j].stderr = <<printed[i].error>>

\* C5: with --runs at least 1, once the runs are over main has a non-empty
\* verdict mapping, whatever the outcome of each run.
C5_VerdictProduced ==
    (detector.runs >= 1 /\ pc \in {"no_results", "analyzed"}) =>
        (pc = "analyzed" /\ DOMAIN analysis # {})

\* text[a..b] is a non-empty run of word characters
IsWord(text, a, b) ==
    a <= b /\ b <= Len(text) /\ \A k \in a..b : text[k] \in WordChars

\* some part of the text has the shape ::word::word
HasClassTest(text) ==
    \E i \in 1..Len(text), b \in 1..Len(text), d \in 1..Len(text) :
        /\ LitAt(text, i, ColonColon)
        /\ IsWord(text, i + 2, b)
        /\ LitAt(text, b + 1, ColonColon)
        /\ IsWord(text, b + 3, d)

\* some part of the text has the shape word.py::word
HasFileTest(text) ==
    \E a \in 1..Len(text), b \in 1..Len(text), d \in 1..Len(text) :
        /\ IsWord(text, a, b)
        /\ LitAt(text, b + 1, DotPyColonColon)
        /\ IsWord(text, b + 6, d)

\* C6: _parse_test_output returns a non-empty list for every text, and the
\* list is exactly the one fallback identifier all_tests if and only if no
\* identifier pattern matches the stdout text the patterns are applied to
\* (a match of the three-part pattern contains one of the second pattern).
C6_ParseFallback ==
    pc = "parsed" =>
        /\ test_names # <<>>
        /\ (test_names = <<all_tests>>)
              <=> ~(HasClassTest(stdout) \/ HasFileTest(stdout))

\* a truncated identifier: the fallback is returned
C6_Witness ==
    /\ pc = "parsed"
    /\ stdout = <<"a", ".", "p", "y", ":", ":">>
    /\ test_names = <<all_tests>>

\* C7: no test name has two records with the same run index, and no verdict
\* has more runs than --runs.
C7_OneRecordPerRun ==
    /\ \A name \in DOMAIN results :
          \A i \in 1..Len(results[name]), j \in 1..Len(results[name]) :
              i # j => results[name][i].run # results[name][j].run
    /\ \A name \in DOMAIN analysis : analysis[name].total_runs <= detector.runs

\* C8: the keys of the mapping analyze_flakiness returns are exactly the
\* names with at least one run record; an empty session gives an empty
\* mapping.
C8_KeySet ==
    pc = "aggregated" =>
        /\ DOMAIN analysis = {name \in DOMAIN results : Len(results[name]) >= 1}
        /\ \A name \in DOMAIN analysis : analysis[name].total_runs >= 1
        /\ (record_count(results) = 0 => analysis = EmptyDict)

\* a session with one name holding records and one name holding none
C8_Witness ==
    /\ pc = "aggregated"
    /\ \E name \in DOMAIN results : results[name] = <<>>
    /\ Cardinality(DOMAIN analysis) = 1
    /\ Cardinality(DOMAIN results) = 2

\* duration_variance > avg_duration * 0.5 over the durations ds, in integers:
\* (n*Q - S*S)/(n*n) > S/(2*n) with S the sum and Q the sum of squares
VarianceAboveHalfMean(ds) ==
    LET n == Len(ds)
        S == DurationSum(ds)
        Q == DurationSquareSum(ds)
    IN 2 * (n * Q - S * S) > n * S

HasModifier(level) == \E i \in 1..Len(level) : level[i] = "_PERFORMANCE"

\* C9: a verdict carries the performance modifier if and only if the
\* population variance of its durations is strictly greater than half their
\* mean, whatever its base tier.
C9_PerformanceModifier ==
    pc = "aggregated" =>
        \A name \in DOMAIN analysis :
            HasModifier(analysis[name].flakiness_level)
                <=> VarianceAboveHalfMean(durations_of(results[name]))

\* the durations [1,1,1,5,1] attach the modifier
C9_Witness ==
    /\ pc = "aggregated"
    /\ \E name \in DOMAIN analysis :
          /\ durations_of(results[name]) = <<1, 1, 1, 5, 1>>
          /\ HasModifier(analysis[name].flakiness_level)

StartedRuns ==
    LET starts == SelectSeq(printed, LAMBDA m : m.msg = "run")
    IN [i \in 1..Len(starts) |-> starts[i].run]

\* the invocations made so far are the runs 1, 2, ..., k in this order, where
\* every run before k is over and run k is the only one that may be in
\* progress; once the loop is left, k is the run count
InvocationsInOrder ==
    LET k == Len(StartedRuns)
    IN /\ StartedRuns = [i \in 1..k |-> i]
       /\ k = (IF pc = "subprocess" THEN run ELSE run - 1)
       /\ k <= detector.runs \/ k = 0
       /\ pc \notin {"run", "subprocess"} =>
             k = (IF detector.runs < 0 THEN 0 ELSE detector.runs)

\* C11: run_test_multiple_times invokes the runner for the run indices
\* 1..run_count in increasing order, one at a time, each only after the one
\* before is over (returned, timed out or failed), a timeout or an error
\* never stops the later runs, and the loop comes to an end.
C11_SequentialRuns ==
    []InvocationsInOrder /\ <>(pc # "subprocess" /\ run > detector.runs)

\* main is over after at least two runs, the first of which timed out
C11_Witness ==
    /\ pc \in {"no_results", "analyzed"}
    /\ detector.runs >= 2
    /\ Len(StartedRuns) = detector.runs
    /\ \E i \in 1..Len(printed) : printed[i].msg = "timed out" /\ printed[i].run = 1

\* C12: with a run count below 1 or a target path that does not exist, the
\* external test runner is never invoked.
C12_ConfigRejected ==
    (detector.runs < 1 \/ detector.test_directory \notin ExistingPaths) =>
        (StartedRuns = <<>> /\ pc # "subprocess")

\* every record of the session belongs to a run started in the current call
RecordsOfThisCall ==
    \A name \in DOMAIN results : \A j \in 1..Len(results[name]) :
        \E i \in 1..Len(StartedRuns) : StartedRuns[i] = results[name][j].run

\* C20: no step of run_test_multiple_times changes a field of the detector,
\* and the session of a call holds records of the runs of that call only,
\* however often the operation is called.
C20_NoSharedState ==
    [][detector' = detector]_vars /\ []RecordsOfThisCall

\* a later call of run_test_multiple_times has recorded a run
C20_Witness ==
    /\ calls >= 2
    /\ results # EmptyDict
    /\ detector.flaky_tests = <<>>
    /\ detector.test_results = EmptyDict

\* the position of a category in the order of the code
CategoryIndex(type) ==
    CHOOSE c \in 1..Len(pattern_categories) : pattern_categories[c].type = type

\* the position of a regular expression in the list of its category
PatternIndex(type, pattern) ==
    LET patterns == pattern_categories[CategoryIndex(type)].patterns
    IN CHOOSE k \in 1..Len(patterns) : patterns[k].pattern = pattern

\* C13 as stated: the matches of a scan come category by category in the
\* order TIME_DEPENDENT, RANDOM_DATA, EXTERNAL_DEPENDENCY, FILESYSTEM,
\* GLOBAL_STATE, and within one category in non-decreasing line order.
C13_CategoryThenLine ==
    "detector" \in scanned =>
        \A i, j \in 1..Len(flaky_patterns) :
            i < j =>
                LET a == flaky_patterns[i]
                    b == flaky_patterns[j]
                IN /\ CategoryIndex(a.type) <= CategoryIndex(b.type)
                   /\ a.type = b.type => a.line <= b.line

\* C13 amended: the matches come category by category in the fixed order,
\* within one category regular expression by regular expression in the order
\* of its list, and within one regular expression in non-decreasing line
\* order.
C13_CategoryThenPattern ==
    "detector" \in scanned =>
        \A i, j \in 1..Len(flaky_patterns) :
            i < j =>
                LET a == flaky_patterns[i]
                    b == flaky_patterns[j]
                IN /\ CategoryIndex(a.type) <= CategoryIndex(b.type)
                   /\ a.type = b.type =>
                          PatternIndex(a.type, a.pattern) <= PatternIndex(b.type, b.pattern)
                   /\ (a.type = b.type /\ a.pattern = b.pattern) => a.line <= b.line

\* a scan found, in one category, a match of an earlier regular expression
\* on a later line than a match of a later one, and matches of two categories
C13_Witness ==
    /\ "detector" \in scanned
    /\ \E i, j \in 1..Len(flaky_patterns) :
          /\ i < j
          /\ flaky_patterns[i].type = flaky_patterns[j].type
          /\ flaky_patterns[i].pattern # flaky_patterns[j].pattern
          /\ flaky_patterns[i].line > flaky_patterns[j].line
    /\ \E i, j \in 1..Len(flaky_patterns) : flaky_patterns[i].type # flaky_patterns[j].type

\* the index of the first character of line l of lines (lines is the text
\* split at its newline characters)
RECURSIVE LineStart(_, _)
LineStart(lines, l) ==
    IF l = 1 THEN 1 ELSE LineStart(lines, l - 1) + Len(lines[l - 1]) + 1

\* C14: the line of every match is 1 plus the number of newline characters
\* before the start of the match; it lies between 1 and the number of lines
\* of the text, and the matched text begins on that line.
C14_LineOfMatchStart ==
    "detector" \in scanned =>
        LET ms == pattern_matches(content)
            lines == split_lines(content)
        IN /\ Len(flaky_patterns) = Len(ms)
           /\ \A i \in 1..Len(flaky_patterns) :
                 LET l == flaky_patterns[i].line
                 IN /\ l = 1 + Cardinality({k \in 1..(ms[i].start - 1) : content[k] = "\n"})
                    /\ l \in 1..Len(lines)
                    /\ LineStart(lines, l) <= ms[i].start
                    /\ ms[i].start < LineStart(lines, l) + Len(lines[l])

\* a match that begins on line 2 or later and runs over the end of its line
C14_Witness ==
    /\ "detector" \in scanned
    /\ \E i \in 1..Len(flaky_patterns) :
          /\ flaky_patterns[i].line >= 2
          /\ \E k \in pattern_matches(content)[i].start..(pattern_matches(content)[i].end - 1) :
                content[k] = "\n"

\* the text holds time.sleep( once, at index p, and nothing else but filler
OnlySleepAt(text, p) ==
    /\ LitAt(text, p, txt.time_sleep)
    /\ \A k \in 1..Len(text) :
          (k < p \/ k >= p + Len(txt.time_sleep)) => text[k] \in {"x", "\n"}

\* two matches share a character of the text
Overlap(m, n) == m.start < n.end /\ n.start < m.end

\* C15: a text whose only construct is one time.sleep( on line k gives
\* exactly one match, of category TIME_DEPENDENT (TIME_DEPENDENCY in
\* testbot.py) on line k, and no occurrence of a construct is reported more
\* than once.
C15_ReportedOnce ==
    /\ "detector" \in scanned =>
          /\ \A p \in 1..Len(content) :
                OnlySleepAt(content, p) =>
                    /\ Len(flaky_patterns) = 1
                    /\ flaky_patterns[1].type = "TIME_DEPENDENT"
                    /\ flaky_patterns[1].line = line_number(content, p)
          /\ \A i, j \in 1..Len(pattern_matches(content)) :
                i # j => ~ Overlap(pattern_matches(content)[i], pattern_matches(content)[j])
    /\ "testbot" \in scanned =>
          \A p \in 1..Len(content) :
              OnlySleepAt(content, p) =>
                  /\ Len(flaky_issues) = 1
                  /\ flaky_issues[1].pattern = "TIME_DEPENDENCY"
                  /\ flaky_issues[1].line = line_number(content, p)

\* the scans one of the two loops has made so far, in order
ScansOf(scanner) == SelectSeq(scan_log, LAMBDA e : e.scanner = scanner)

\* C16: an empty file, a file that cannot be opened and a file that cannot
\* be decoded each give the empty list, and the loop over the files goes on:
\* every file before the loop's position has been scanned, in list order,
\* whatever happened to the files before it.
C16_BadFilesSkipped ==
    LET log == ScansOf("detector")
    IN /\ file_index.main <= Len(test_files) + 1
       /\ Len(log) = file_index.main - 1
       /\ \A i \in 1..Len(log) :
             /\ log[i].file = test_files[i]
             /\ (~ fs[log[i].file].readable \/ ~ fs[log[i].file].decodable
                   \/ fs[log[i].file].content = <<>>) => log[i].result = <<>>
       /\ \A f \in DOMAIN pattern_analysis :
             fs[f].readable /\ fs[f].decodable /\ fs[f].content # <<>>

\* the loop met a file it could not read and after it scanned a file and
\* stored its matches
C16_Witness ==
    \E i, k \in 1..Len(ScansOf("detector")) :
        /\ i < k
        /\ ~ can_read(fs[ScansOf("detector")[i].file])
        /\ ScansOf("detector")[k].result # <<>>
        /\ ScansOf("detector")[k].file \in DOMAIN pattern_analysis

\* two scans by the same function of the same file, or of files with the
\* same state on disk
SameInput(a, b) ==
    /\ a.scanner = b.scanner
    /\ fs[a.file] = fs[b.file]
    /\ a.scanner = "testbot" => a.file = b.file

ScansRepeatable ==
    \A i, j \in 1..Len(scan_log) :
        SameInput(scan_log[i], scan_log[j]) => scan_log[i].result = scan_log[j].result

\* C17: a scan leaves the detector as it was, and scans of the same content
\* give the same result however many scans came before.
C17_ScanIdempotent ==
    [][detector' = detector]_vars /\ []ScansRepeatable

\* each scanner has scanned one file twice, with findings, after a scan of
\* another file
C17_Witness ==
    \A scanner \in {"detector", "testbot"} :
        \E i, j \in 1..Len(ScansOf(scanner)) :
            /\ i + 1 < j
            /\ ScansOf(scanner)[i].file = ScansOf(scanner)[j].file
            /\ ScansOf(scanner)[i].file # ScansOf(scanner)[i + 1].file
            /\ ScansOf(scanner)[i].result # <<>>

\* the security keywords the claim names
SecurityKeywords ==
    { <<"t", "o", "k", "e", "n">>,
      <<"p", "a", "s", "s", "w", "o", "r", "d">>,
      <<"k", "e", "y">>,
      <<"s", "e", "c", "r", "e", "t">>,
      <<"e", "n", "c", "r", "y", "p", "t">>,
      <<"d", "e", "c", "r", "y", "p", "t">>,
      <<"a", "u", "t", "h">>,
      <<"l", "o", "g", "i", "n">> }

\* the finding is among the security issues collected so far
Reported(finding) == \E i \in 1..Len(security_issues) : security_issues[i] = finding

\* the content holds one of the weak random calls
WeakRandomPresent ==
    \E k \in 1..Len(weak_random_patterns) : search(weak_random_patterns[k], content)

\* the content holds one of the security keywords, in any case
SecurityKeywordPresent == \E kw \in SecurityKeywords : Contains(lower(content), kw)

\* the lines of the content with an unseeded random call
UnseededRandomLines ==
    LET lines == split_lines(content)
    IN {l \in 1..Len(lines) : \/ Contains(lower(lines[l]), txt.math_random)
                              \/ Contains(lower(lines[l]), txt.random_random)}

\* C18: once the weak random check has run, WEAK RANDOM GENERATION is
\* reported exactly when the content holds a weak random call and a security
\* keyword; the flaky pattern scan reports RANDOM_WITHOUT_SEED on every line
\* with an unseeded random call, keyword or not.
C18_ContextGating ==
    /\ check_no > 6 =>
          (Reported("WEAK RANDOM GENERATION") <=> (WeakRandomPresent /\ SecurityKeywordPresent))
    /\ "testbot" \in scanned =>
          {flaky_issues[i].line : i \in {j \in 1..Len(flaky_issues) :
                                           flaky_issues[j].pattern = "RANDOM_WITHOUT_SEED"}}
              = UnseededRandomLines

\* a weak random call without a security keyword: the flaky pattern scan
\* reports it, the security analysis does not
C18_Witness ==
    /\ check_no > 6
    /\ "testbot" \in scanned
    /\ WeakRandomPresent
    /\ ~ SecurityKeywordPresent
    /\ ~ Reported("WEAK RANDOM GENERATION")
    /\ \E i \in 1..Len(flaky_issues) : flaky_issues[i].pattern = "RANDOM_WITHOUT_SEED"

Rank(level) == CASE level = "LOW" -> 0 [] level = "HIGH" -> 1 [] level = "CRITICAL" -> 2

\* a financial or authentication keyword in the name and no tests
MoneyOrAuthUntested ==
    /\ \/ has_keyword(element_name, financial_keywords)
       \/ has_keyword(element_name, auth_keywords)
    /\ ~ has_tests

\* C19: the risk level is LOW before the first check, no check lowers it,
\* and for an element with a financial or authentication keyword in its name
\* and no tests it is CRITICAL from the second check on, whatever the later
\* checks find.
C19_OnlyEscalates ==
    /\ [][Rank(risk_level') >= Rank(risk_level)]_vars
    /\ [](check_no = 1 => risk_level = "LOW")
    /\ []((check_no > 2 /\ MoneyOrAuthUntested) => risk_level = "CRITICAL")

\* the call has returned CRITICAL for an untested payment or login element
\* after the SQL check, which sets HIGH on its own, has fired
C19_Witness ==
    /\ check_no = 8
    /\ MoneyOrAuthUntested
    /\ Reported("SQL INJECTION RISK")
    /\ risk_level = "CRITICAL"

\* a step in which analyze_flakiness is called and returns
AggCallStep == pc = "agg_input" /\ pc' = "aggregated"

\* C21: a call of analyze_flakiness leaves the session, the detector and the
\* mapping returned by the call before as they are; the mapping it returns
\* has a verdict for exactly the names with records, each worked out from all
\* the records the session holds now; and on the session of the call before
\* it returns a mapping equal to the one returned then
C21_RebuiltInFull ==
    [][AggCallStep =>
          /\ results' = results
          /\ detector' = detector
          /\ earlier' = earlier
          /\ DOMAIN analysis' = {n \in DOMAIN results : results[n] # <<>>}
          /\ \A n \in DOMAIN analysis' :
                /\ analysis'[n].runs = results[n]
                /\ analysis'[n].total_runs = Len(results[n])
                /\ analysis'[n].successful_runs = SuccessCount(results[n])
          /\ (calls > 1 /\ earlier.results = results => analysis' = earlier.analysis)]_vars

\* a second call has returned, on a session that got records after the
\* first call had returned a verdict
C21_Witness ==
    /\ pc = "aggregated"
    /\ calls > 1
    /\ earlier.analysis # <<>>
    /\ \E n \in DOMAIN earlier.results : Len(results[n]) > Len(earlier.results[n])

\* the records of a session, whatever their names
AllRecords(res) == UNION {{res[n][i] : i \in 1..Len(res[n])} : n \in DOMAIN res}

\* C22: the records of the run whose subprocess returned last have success
\* true exactly when the exit code was 0 and carry the wall time of that
\* run; and any two records of a session with the same run index have the
\* same success and the same duration
C22_WholeRunOutcome ==
    /\ \A rec \in AllRecords(results) :
          (result.run # 0 /\ rec.run = result.run) =>
              /\ rec.success = (result.returncode = 0)
              /\ rec.duration = result.duration
    /\ \A rec1, rec2 \in AllRecords(results) :
          rec1.run = rec2.run =>
              /\ rec1.success = rec2.success
              /\ rec1.duration = rec2.duration

\* a run whose runner exited with 1 after 3 seconds left records under two
\* names, after an earlier run that passed
C22_Witness ==
    /\ result.run > 1
    /\ result.returncode = 1
    /\ result.duration = 3
    /\ \E n, m \in DOMAIN results :
          /\ n # m
          /\ \E i \in 1..Len(results[n]), j \in 1..Len(results[m]) :
                /\ results[n][i].run = result.run
                /\ results[m][j].run = result.run
          /\ \E i \in 1..Len(results[n]) : results[n][i].success

\* C23: along the record sequence of each test name the run indices are
\* increasing, at every point of the run loop and in the returned session
C23_RunOrder ==
    \A n \in DOMAIN results :
        \A i, j \in 1..Len(results[n]) :
            i < j => results[n][i].run < results[n][j].run

\* the text is one three-part identifier word.py::word::word
IsThreePartId(text) ==
    \E b \in 1..Len(text), d \in 1..Len(text) :
        /\ IsWord(text, 1, b)
        /\ LitAt(text, b + 1, DotPyColonColon)
        /\ IsWord(text, b + 6, d)
        /\ LitAt(text, d + 1, ColonColon)
        /\ IsWord(text, d + 3, Len(text))

\* C24: a runner output that consists of one three-part identifier
\* file.py::Class::test yields exactly one test name
C24_OneNamePerIdentifier ==
    (pc = "parsed" /\ IsThreePartId(stdout)) => Len(test_names) = 1

\* the reports main has printed or written to a file
WrittenReports ==
    {fs[f].content : f \in DOMAIN fs \ FilePaths}
        \cup {printed[k].report : k \in {j \in 1..Len(printed) : printed[j].msg = "report"}}

\* C25: in the summary of every report the flaky, failing and stable counts
\* add up to the total number of tests analysed
C25_SummaryCountsAddUp ==
    \A report \in WrittenReports :
        Cardinality(report.summary.flaky_tests)
            + Cardinality(report.summary.failing_tests)
            + Cardinality(report.summary.stable_tests) = report.summary.total_tests

\* C26: generate_flaky_test_report returns a report, whatever the verdict
\* mapping and the pattern-analysis mapping are: main never ends in an
\* exception of that call
C26_ReportReturned == pc # "crashed"

\* C27: with no record at all main stops before aggregation: it has no
\* verdict mapping, has printed no report and written no file, and takes no
\* further step; aggregation and report are reached with records only
C27_NoSignalNoReport ==
    /\ [](pc = "no_results" =>
            /\ results = EmptyDict
            /\ analysis = EmptyDict
            /\ WrittenReports = {}
            /\ DOMAIN fs = {})
    /\ [](pc \in {"analyzed", "files", "report", "crashed", "done"} => results # EmptyDict)
    /\ [][pc = "no_results" => pc' = "no_results"]_vars

\* main has stopped with "No test results found" after runs that left no
\* record
C27_Witness ==
    /\ pc = "no_results"
    /\ detector.runs > 1
    /\ \E k \in 1..Len(printed) : printed[k].msg = "timed out"

\* C28: the risk level of analyze_security_risks is LOW, HIGH or CRITICAL,
\* and it is LOW exactly while the list of security issues is empty: at
\* every point of a call, and so in what the call returns
C28_LevelMatchesIssues ==
    /\ risk_level \in {"LOW", "HIGH", "CRITICAL"}
    /\ risk_level = "LOW" <=> security_issues = <<>>

\* a call has returned HIGH with the one issue of an untested upload
\* function
C28_Witness ==
    /\ check_no = 8
    /\ ~ has_tests
    /\ risk_level = "HIGH"
    /\ security_issues = <<"INPUT HANDLING + NO TESTS">>

\* C29: a status line is worded NO TESTS only for an element without tests,
\* and NO DOCS or POOR DOCS only for an element with doc_score < 2
C29_StatusAgrees ==
    \A k \in 1..Len(printed) :
        printed[k].msg = "status" =>
            /\ printed[k].line.tests = "NO TESTS" => ~ has_tests
            /\ printed[k].line.docs \in {"NO DOCS", "POOR DOCS"} => doc_score < 2

====
